---- MODULE Spec2Model ----
(***************************************************************************)
(* Verification model of the XMSS batch verifier of the OpenVM guest       *)
(* (src/openvm/guest/src/xmss_verify.rs).                                  *)
(*                                                                         *)
(* Number representation.  TLC integers are 32-bit signed, so:             *)
(*   - a canonical KoalaBear element (0 .. P-1, P < 2^31) is an integer;   *)
(*   - u8, u16, usize lengths and the batch size k are integers;           *)
(*   - every u32 / u64 / u128 machine word is the little-endian sequence   *)
(*     of its bytes (4, 8 or 16 entries of 0..255), which is also what     *)
(*     to_le_bytes / from_le_bytes produce and consume.                    *)
(***************************************************************************)
EXTENDS Integers, Sequences, FiniteSets, TLC

(***************************************************************************)
(* Program constants (xmss_verify.rs:14-40).                               *)
(***************************************************************************)
FE_BYTES == 4
HASH_LEN_FE == 7
MSG_HASH_LEN_FE == 5
PARAMETER_LEN_FE == 5
RANDOMNESS_LEN_FE == 6
TWEAK_LEN_FE == 2
MSG_LEN_FE == 9
NUM_CHAINS == 155
NUM_CHUNKS_MESSAGE == NUM_CHAINS
TREE_HEIGHT == 18
BASE == 2
FIELD_MODULUS == 2130706433
TWEAK_SEPARATOR_FOR_MESSAGE_HASH == 2
TWEAK_SEPARATOR_FOR_TREE_HASH == 1
TWEAK_SEPARATOR_FOR_CHAIN_HASH == 0
DOMAIN_PARAMETERS_LENGTH == 4
POSEIDON_CAPACITY_LEN == 9
POSEIDON_INPUT_SINGLE == PARAMETER_LEN_FE + TWEAK_LEN_FE + HASH_LEN_FE
POSEIDON_INPUT_PAIR == PARAMETER_LEN_FE + TWEAK_LEN_FE + 2 * HASH_LEN_FE
MESSAGE_HASH_INPUT_LEN == RANDOMNESS_LEN_FE + PARAMETER_LEN_FE + TWEAK_LEN_FE + MSG_LEN_FE
DIGEST_LEN == 32

(***************************************************************************)
(* Machine words as little-endian byte sequences.                          *)
(***************************************************************************)
Byte == 0..255

Zeros(n) == SubSeq([i \in 1..n |-> 0], 1, n)

Min(a, b) == IF a <= b THEN a ELSE b

\* Evaluation order only: a function [i \in 1..n |-> e] is kept unevaluated by
\* TLC and e would be recomputed at every access.  Vec(f) is the same sequence
\* with every element computed once.
Vec(f) == SubSeq(f, 1, Len(f))

\* Evaluation order.  TLC passes operator arguments unevaluated and computes an
\* argument once, at its first use.  A value that a step uses several times is
\* therefore handed to a helper operator as an argument.  A loop evaluates its
\* state on entry (Evaluated is TRUE once TLC has computed v), and a long loop
\* is split by halves, so that the depth of evaluation stays logarithmic in the
\* number of iterations.
Evaluated(v) == v = v

\* The n-byte little-endian image of an integer 0 <= x < 2^31 (x.to_le_bytes()).
RECURSIVE IntToBytes(_, _)
IntToBytes(x, n) ==
    IF n = 0 THEN <<>> ELSE <<x % 256>> \o IntToBytes(x \div 256, n - 1)

\* A word is zero iff all its bytes are.
IsZeroWord(w) == \A i \in 1..Len(w) : w[i] = 0

\* One byte of a long division by d (0 < d < 2^31), entered with rem < d:
\* returns <<q, rem'>> with rem*256 + byte = q*d + rem' and rem' < d, computed
\* without leaving the 32-bit range.  For d >= 2^23 the quotient digit is
\* estimated from the high part dh = d / 256 of the divisor: the estimate
\* rem / dh is never too small and at most one too large.
DivByte(rem, byte, d) ==
    IF d < 8388608
    THEN LET t == rem * 256 + byte IN <<t \div d, t % d>>
    ELSE LET dh == d \div 256
             dl == d % 256
             q0 == rem \div dh
             v == 256 * (rem % dh) + byte - q0 * dl
         IN  IF v < 0 THEN <<q0 - 1, v + d>> ELSE <<q0, v>>

\* Long division of a word by d, from the most significant byte (index i) down,
\* entered with a running remainder rem < d and the quotient bytes q found so
\* far: returns [q |-> word of the same length, r |-> remainder].  The quotient
\* keeps only the low Len(w) bytes, as `q as u32` does for a limb.
RECURSIVE DivWordFrom(_, _, _, _, _)
DivWordFrom(w, d, rem, i, q) ==
    IF ~Evaluated(<<rem, q>>) \/ i = 0 THEN [q |-> q, r |-> rem]
    ELSE DivWordFrom(w, d, DivByte(rem, w[i], d)[2], i - 1,
                     <<DivByte(rem, w[i], d)[1]>> \o q)

DivWord(w, d, rem) == DivWordFrom(w, d, rem, Len(w), <<>>)

\* Bit j (from 0) of a little-endian byte word
BitOf(w, j) == (w[(j \div 8) + 1] \div (2 ^ (j % 8))) % 2

\* a[i], or 0 beyond the end of a
ByteAt(a, i) == IF i <= Len(a) THEN a[i] ELSE 0

\* a + b + carry over n bytes: [w |-> low n bytes, c |-> carry out (0 or 1)].
RECURSIVE AddWordsFrom(_, _, _, _, _, _)
AddWordsFrom(a, b, n, i, carry, w) ==
    IF ~Evaluated(<<carry, w>>) \/ i > n THEN [w |-> w, c |-> carry]
    ELSE AddWordsFrom(a, b, n, i + 1, (ByteAt(a, i) + ByteAt(b, i) + carry) \div 256,
                      w \o <<(ByteAt(a, i) + ByteAt(b, i) + carry) % 256>>)

AddWords(a, b, n) == AddWordsFrom(a, b, n, 1, 0, <<>>)

\* a * m for a single byte m, over Len(a)+1 bytes.
RECURSIVE MulWordByteFrom(_, _, _, _, _)
MulWordByteFrom(a, m, i, carry, w) ==
    IF ~Evaluated(<<carry, w>>) \/ i > Len(a) THEN w \o <<carry>>
    ELSE MulWordByteFrom(a, m, i + 1, (a[i] * m + carry) \div 256,
                         w \o <<(a[i] * m + carry) % 256>>)

\* a * b over Len(a)+Len(b) bytes (schoolbook, one byte of b at a time).
RECURSIVE MulWordsFrom(_, _, _)
MulWordsFrom(a, b, j) ==
    IF j > Len(b) THEN Zeros(Len(a) + Len(b))
    ELSE AddWords(Zeros(j - 1) \o MulWordByteFrom(a, b[j], 1, 0, <<>>),
                  MulWordsFrom(a, b, j + 1), Len(a) + Len(b)).w

MulWords(a, b) == MulWordsFrom(a, b, 1)

(***************************************************************************)
(* KoalaBear field (p3_koala_bear): canonical residues mod FIELD_MODULUS.  *)
(***************************************************************************)
Field == 0..(FIELD_MODULUS - 1)

\* KoalaBear + KoalaBear
AddF(a, b) == IF a >= FIELD_MODULUS - b THEN a - (FIELD_MODULUS - b) ELSE a + b

\* KoalaBear::from_u32(limb): the residue of the 32-bit limb.
from_u32(limb) == DivWord(limb, FIELD_MODULUS, 0).r


(***************************************************************************)
(* SmallBigUint (xmss_verify.rs:545-634): a little-endian vector of u32    *)
(* limbs, each limb a 4-byte word.  Every operation returns the new limb   *)
(* vector (div_small returns it together with the remainder).              *)
(***************************************************************************)
RECURSIVE normalize(_)
normalize(limbs) ==
    IF Len(limbs) > 0 /\ IsZeroWord(limbs[Len(limbs)])
    THEN normalize(SubSeq(limbs, 1, Len(limbs) - 1))
    ELSE limbs

zero == <<>>

\* value: a u64 (8 bytes)
from_u64(value) ==
    LET lo == SubSeq(value, 1, 4)
        hi == SubSeq(value, 5, 8)
    IN  normalize(IF ~IsZeroWord(hi) THEN <<lo, hi>> ELSE <<lo>>)

\* bytes.chunks(4), the last chunk zero-padded to a full limb
from_le_bytes(bytes) ==
    LET n == (Len(bytes) + 3) \div 4
        limb(j) == [i \in 1..4 |->
                      IF 4 * (j - 1) + i <= Len(bytes) THEN bytes[4 * (j - 1) + i] ELSE 0]
    IN  normalize(Vec([j \in 1..n |-> Vec(limb(j))]))

is_zero(limbs) == Len(limbs) = 0

\* prod = limb * mul + carry (u64); limb = prod as u32; carry = prod >> 32
RECURSIVE mul_small_from(_, _, _, _, _)
mul_small_limb(limbs, mul, i, out, prod) ==
    mul_small_from(limbs, mul, i + 1, SubSeq(prod, 5, 8), out \o <<SubSeq(prod, 1, 4)>>)

mul_small_from(limbs, mul, i, carry, out) ==
    IF ~Evaluated(out) \/ i > Len(limbs)
    THEN IF ~IsZeroWord(carry) THEN out \o <<carry>> ELSE out
    ELSE mul_small_limb(limbs, mul, i, out, AddWords(MulWords(limbs[i], mul), carry, 8).w)

\* A faulty variant of mul_small: the carry between limbs is dropped.
mul_small_drop_carry(limbs, mul) ==
    IF IsZeroWord(mul) \/ is_zero(limbs) THEN <<>>
    ELSE Vec([i \in 1..Len(limbs) |-> SubSeq(MulWords(limbs[i], mul), 1, 4)])

\* mul: a u32 (4 bytes)
mul_small(limbs, mul) ==
    IF IsZeroWord(mul) \/ is_zero(limbs) THEN <<>>
    ELSE mul_small_from(limbs, mul, 1, Zeros(4), <<>>)

\* sum = limb + carry (u64); limb = sum as u32; carry = sum >> 32; stop at carry 0
RECURSIVE add_small_from(_, _, _)
add_small_limb(limbs, i, sum) ==
    IF IsZeroWord(SubSeq(sum, 5, 8))
    THEN <<SubSeq(sum, 1, 4)>> \o SubSeq(limbs, i + 1, Len(limbs))
    ELSE <<SubSeq(sum, 1, 4)>> \o add_small_from(limbs, i + 1, SubSeq(sum, 5, 8))

add_small_from(limbs, i, carry) ==
    IF i > Len(limbs)
    THEN IF ~IsZeroWord(carry) THEN <<carry>> ELSE <<>>
    ELSE add_small_limb(limbs, i, AddWords(limbs[i], carry, 8).w)

\* add: a u32 (4 bytes)
add_small(limbs, add) == add_small_from(limbs, 1, add)

\* cur = (rem << 32) | limb; q = cur / divisor; rem = cur % divisor; limb = q as u32,
\* from the most significant limb down; s is [q, r] of one limb.
RECURSIVE div_small_from(_, _, _, _, _)
div_small_limb(limbs, divisor, i, out, s) ==
    div_small_from(limbs, divisor, i - 1, s.r, <<s.q>> \o out)

div_small_from(limbs, divisor, i, rem, out) ==
    IF ~Evaluated(out) \/ i = 0 THEN [limbs |-> out, rem |-> rem]
    ELSE div_small_limb(limbs, divisor, i, out, DivWord(limbs[i], divisor, rem))

\* A faulty variant of div_small_result: the quotient is not normalized.
div_small_result_raw(r) == [limbs |-> r.limbs, rem |-> r.rem]

\* self.normalize(); rem
div_small_result(r) == [limbs |-> normalize(r.limbs), rem |-> r.rem]

\* divisor: an integer 0 <= divisor < 2^31 (the code passes FIELD_MODULUS and BASE).
\* Returns [limbs |-> the quotient, rem |-> the remainder].
div_small(limbs, divisor) ==
    IF divisor = 0 THEN [limbs |-> limbs, rem |-> 0]
    ELSE div_small_result(div_small_from(limbs, divisor, Len(limbs), 0, <<>>))

\* *slot = value.div_small(base) as u8, with d the result of div_small
biguint_to_base_slot(st, i, d) ==
    [value |-> d.limbs, out |-> [st.out EXCEPT ![i] = d.rem % 256], done |-> FALSE]

\* out = vec![0u8; digits]; for each slot: break once value is zero, else
\* *slot = value.div_small(base) as u8.  The loop state is [value, out, done].
biguint_to_base_step(base, st, i) ==
    IF st.done \/ is_zero(st.value) THEN [st EXCEPT !.done = TRUE]
    ELSE biguint_to_base_slot(st, i, div_small(st.value, base))

\* The slots lo..hi in order
RECURSIVE biguint_to_base_loop(_, _, _, _)
biguint_to_base_loop(base, st, lo, hi) ==
    IF ~Evaluated(st) \/ lo > hi THEN st
    ELSE IF lo = hi THEN biguint_to_base_step(base, st, lo)
    ELSE biguint_to_base_loop(base,
                              biguint_to_base_loop(base, st, lo, (lo + hi) \div 2),
                              ((lo + hi) \div 2) + 1, hi)

\* A faulty variant of biguint_to_base: one digit more than asked for.
biguint_to_base_extra_digit(value, base, digits) ==
    biguint_to_base_loop(base, [value |-> value, out |-> Zeros(digits + 1), done |-> FALSE],
                         1, digits + 1).out

biguint_to_base(value, base, digits) ==
    biguint_to_base_loop(base, [value |-> value, out |-> Zeros(digits), done |-> FALSE],
                         1, digits).out

\* `count` successive remainders of acc by FIELD_MODULUS, least significant first,
\* each turned into a field element by KoalaBear::from_u32.
RECURSIVE BaseP_Digits(_, _)
BaseP_Digit(count, d) ==
    <<from_u32(IntToBytes(d.rem, 4))>> \o BaseP_Digits(d.limbs, count - 1)

BaseP_Digits(acc, count) ==
    IF count = 0 THEN <<>> ELSE BaseP_Digit(count, div_small(acc, FIELD_MODULUS))

\* A faulty variant of encode_message: the last digit is not taken.
encode_message_short(message) ==
    BaseP_Digits(from_le_bytes(message), MSG_LEN_FE - 1) \o <<0>>

encode_message(message) == BaseP_Digits(from_le_bytes(message), MSG_LEN_FE)

\* value = ((epoch as u64) << 8) | 0x02
encode_epoch(epoch) ==
    BaseP_Digits(from_u64(<<TWEAK_SEPARATOR_FOR_MESSAGE_HASH>> \o epoch \o Zeros(3)),
                 TWEAK_LEN_FE)

RECURSIVE decode_acc(_, _, _)
decode_acc(fe, i, acc) ==
    IF i > Len(fe) THEN acc
    ELSE decode_acc(fe, i + 1,
                    add_small(mul_small(acc, IntToBytes(FIELD_MODULUS, 4)),
                              IntToBytes(fe[i], 4)))

\* A faulty variant of decode_to_chunks: the fold starts at the second element.
decode_to_chunks_skip_first(fe) ==
    biguint_to_base(decode_acc(fe, 2, zero), BASE, NUM_CHUNKS_MESSAGE)

decode_to_chunks(fe) == biguint_to_base(decode_acc(fe, 1, zero), BASE, NUM_CHUNKS_MESSAGE)


(***************************************************************************)
(* The Poseidon2 permutations (p3_koala_bear, an external crate: its round *)
(* constants and linear layers are not part of this repository).  The      *)
(* model fixes one bijection of Field^W per width W: running sums of the   *)
(* lanes seeded with W, then running sums in the opposite direction.       *)
(* Every output lane depends on every input lane.  All code below uses the *)
(* permutation only through permute_mut, as the source does.               *)
(***************************************************************************)
\* out \o <<prev + s[i], prev + s[i] + s[i+1], ...>>
RECURSIVE RunningSums(_, _, _, _)
RunningSums(s, i, prev, out) ==
    IF ~Evaluated(out) \/ i > Len(s) THEN out
    ELSE RunningSums(s, i + 1, AddF(prev, s[i]), out \o <<AddF(prev, s[i])>>)

Reverse(s) == Vec([i \in 1..Len(s) |-> s[Len(s) + 1 - i]])

permute_mut(state) ==
    Reverse(RunningSums(Reverse(RunningSums(state, 1, Len(state), <<>>)), 1, 1, <<>>))

\* state[i] += input[i]; state[..OUT_LEN]
poseidon_feed_forward(OUT_LEN, input, state) ==
    Vec([i \in 1..OUT_LEN |->
           IF i <= Len(input) THEN AddF(state[i], input[i]) ELSE state[i]])

\* padded[..input.len()] = input; state = perm(padded); state[i] += input[i];
\* state[..OUT_LEN]
poseidon_compress(width, OUT_LEN, input) ==
    poseidon_feed_forward(OUT_LEN, input, permute_mut(input \o Zeros(width - Len(input))))

poseidon_compress24(OUT_LEN, input) == poseidon_compress(24, OUT_LEN, input)

poseidon_compress16(OUT_LEN, input) == poseidon_compress(16, OUT_LEN, input)

\* KoalaBear::from_u64(value) for a value that is already a base-p digit
koalabear_from_u64(value) == value % FIELD_MODULUS

\* `count` base-p digits of a u128 (16 bytes): digit = acc % p; acc /= p
RECURSIVE WordBaseP(_, _)
WordBasePDigit(count, d) == <<koalabear_from_u64(d.r)>> \o WordBaseP(d.q, count - 1)

WordBaseP(acc, count) ==
    IF count = 0 THEN <<>> ELSE WordBasePDigit(count, DivWord(acc, FIELD_MODULUS, 0))

\* acc = (acc << 32) | param for the four lengths (each below 2^31 here), then
\* 24 base-p digits, compressed to the 9-lane capacity block.
poseidon_safe_domain_separator24(params) ==
    poseidon_compress24(POSEIDON_CAPACITY_LEN,
                        WordBaseP(IntToBytes(params[4], 4) \o IntToBytes(params[3], 4)
                                      \o IntToBytes(params[2], 4) \o IntToBytes(params[1], 4),
                                  24))

\* One absorb step: add the chunk starting at idx into the rate lanes, permute.
sponge_absorb(rate, input, state, idx) ==
    permute_mut(Vec([slot \in 1..24 |->
                       IF slot <= Min(rate, Len(input) - idx)
                       THEN AddF(state[slot], input[idx + slot])
                       ELSE state[slot]]))

\* The chunks lo..hi of `for chunk in input.chunks(rate)` in order
RECURSIVE sponge_absorb_loop(_, _, _, _, _)
sponge_absorb_loop(rate, input, state, lo, hi) ==
    IF ~Evaluated(state) \/ lo > hi THEN state
    ELSE IF lo = hi THEN sponge_absorb(rate, input, state, (lo - 1) * rate)
    ELSE sponge_absorb_loop(rate, input,
                            sponge_absorb_loop(rate, input, state, lo, (lo + hi) \div 2),
                            ((lo + hi) \div 2) + 1, hi)

\* while out.len() < OUT_LEN { out.extend(state[..rate]); permute(state) }
RECURSIVE sponge_squeeze(_, _, _, _)
sponge_squeeze(rate, OUT_LEN, state, out) ==
    IF Len(out) >= OUT_LEN THEN out
    ELSE sponge_squeeze(rate, OUT_LEN, permute_mut(state), out \o SubSeq(state, 1, rate))

sponge_rate(rate, OUT_LEN, capacity_value, input) ==
    SubSeq(sponge_squeeze(rate, OUT_LEN,
                          sponge_absorb_loop(rate, input, Zeros(rate) \o capacity_value,
                                             1, (Len(input) + rate - 1) \div rate),
                          <<>>),
           1, OUT_LEN)

\* rate = 24 - capacity_value.len()
poseidon_sponge24(OUT_LEN, capacity_value, input) ==
    sponge_rate(24 - Len(capacity_value), OUT_LEN, capacity_value, input)

\* The permutation calls of the absorb loop of poseidon_sponge24:
\* while idx < input.len() { chunk_len = min(rate, input.len() - idx); ...;
\* permute; idx += chunk_len }
RECURSIVE sponge24_absorb_permutes(_, _, _, _)
sponge24_absorb_permutes(rate, len, idx, n) ==
    IF idx < len
    THEN sponge24_absorb_permutes(rate, len, idx + Min(rate, len - idx), n + 1)
    ELSE n

(***************************************************************************)
(* poseidon_sponge of the RISC Zero core                                   *)
(* (risc0/leansig_zkvm/core/src/poseidon.rs:92-131): the input is padded   *)
(* with zeros to a multiple of the rate, then absorbed chunk by chunk.     *)
(* The loop state is [state, permutes], permutes counting the calls of the *)
(* permutation.                                                            *)
(***************************************************************************)
\* A faulty variant of risc0_input_vector: the padding starts with a 1.
risc0_input_vector_marked(rate, input) ==
    IF (rate - (Len(input) % rate)) % rate = 0 THEN input
    ELSE input \o <<1>> \o Zeros(((rate - (Len(input) % rate)) % rate) - 1)

\* extra_elements = (rate - (input.len() % rate)) % rate; resize with ZERO
risc0_input_vector(rate, input) == input \o Zeros((rate - (Len(input) % rate)) % rate)

\* for i in 0..chunk.len() { state[i] += chunk[i] }; state = perm.permute(state)
risc0_absorb(chunk, st) ==
    [state |-> permute_mut(Vec([i \in 1..24 |->
                                  IF i <= Len(chunk) THEN AddF(st.state[i], chunk[i])
                                  ELSE st.state[i]])),
     permutes |-> st.permutes + 1]

\* for chunk in input_vector.chunks(rate), from offset idx on
RECURSIVE risc0_absorb_loop(_, _, _, _)
risc0_absorb_loop(rate, input_vector, st, idx) ==
    IF ~Evaluated(st) \/ idx >= Len(input_vector) THEN st
    ELSE risc0_absorb_loop(rate, input_vector,
                           risc0_absorb(SubSeq(input_vector, idx + 1,
                                               Min(idx + rate, Len(input_vector))), st),
                           idx + rate)

\* The absorb phase: [state, permutes] after the last chunk
risc0_absorbed(rate, capacity_value, input_vector) ==
    risc0_absorb_loop(rate, input_vector,
                      [state |-> Zeros(rate) \o capacity_value, permutes |-> 0], 0)

\* rate = 24 - capacity_value.len(); squeeze as in poseidon_sponge24
poseidon_sponge(OUT_LEN, capacity_value, input) ==
    SubSeq(sponge_squeeze(24 - Len(capacity_value), OUT_LEN,
                          risc0_absorbed(24 - Len(capacity_value), capacity_value,
                                         risc0_input_vector(24 - Len(capacity_value),
                                                            input)).state,
                          <<>>),
           1, OUT_LEN)

(***************************************************************************)
(* PoseidonTweak (xmss_verify.rs:356-407).  level, chain_index and         *)
(* pos_in_chain are u8 integers; pos_in_level and epoch are u32 words.     *)
(***************************************************************************)
tree(level, pos_in_level) ==
    [kind |-> "Tree", level |-> level, pos_in_level |-> pos_in_level]

chain(epoch, chain_index, pos_in_chain) ==
    [kind |-> "Chain", epoch |-> epoch, chain_index |-> chain_index,
     pos_in_chain |-> pos_in_chain]

\* The packed u128: every field sits at a byte boundary and no two overlap, so
\* the shifts and ORs place the bytes.
\*   Tree:  (level << 40) | (pos_in_level << 8) | 0x01
\*   Chain: (epoch << 24) | (chain_index << 16) | (pos_in_chain << 8) | 0x00
tweak_acc(tweak) ==
    IF tweak.kind = "Tree"
    THEN <<TWEAK_SEPARATOR_FOR_TREE_HASH>> \o tweak.pos_in_level \o <<tweak.level>>
         \o Zeros(10)
    ELSE <<TWEAK_SEPARATOR_FOR_CHAIN_HASH, tweak.pos_in_chain, tweak.chain_index>>
         \o tweak.epoch \o Zeros(9)

\* A faulty variant of to_field_elements: only the first digit is kept.
to_field_elements_one_digit(tweak) ==
    WordBaseP(tweak_acc(tweak), 1) \o Zeros(TWEAK_LEN_FE - 1)

to_field_elements(tweak) == WordBaseP(tweak_acc(tweak), TWEAK_LEN_FE)

\* message.iter().flatten()
Flatten(message) ==
    Vec([i \in 1..(Len(message) * HASH_LEN_FE) |->
            message[((i - 1) \div HASH_LEN_FE) + 1][((i - 1) % HASH_LEN_FE) + 1]])

poseidon_apply(parameter, tweak, message) ==
    IF Len(message) = 1
    THEN poseidon_compress16(HASH_LEN_FE,
                             parameter \o to_field_elements(tweak) \o message[1])
    ELSE IF Len(message) = 2
    THEN poseidon_compress24(HASH_LEN_FE,
                             parameter \o to_field_elements(tweak) \o message[1]
                                 \o message[2])
    ELSE poseidon_sponge24(HASH_LEN_FE,
                           poseidon_safe_domain_separator24(
                               <<PARAMETER_LEN_FE, TWEAK_LEN_FE, Len(message), HASH_LEN_FE>>),
                           parameter \o to_field_elements(tweak) \o Flatten(message))


(***************************************************************************)
(* Byte decoding (xmss_verify.rs:207-234).  Option<T> is the record        *)
(* [some, v]; None carries the empty sequence.                             *)
(***************************************************************************)
None == [some |-> FALSE, v |-> <<>>]

Some(x) == [some |-> TRUE, v |-> x]

digest_to_array(message) ==
    IF Len(message) # DIGEST_LEN THEN None ELSE Some(message)

\* A faulty variant of bytes_to_field_array: no length check, a short buffer is
\* read as if padded with zero bytes.
bytes_to_field_array_padded(N, bytes) ==
    Some(Vec([i \in 1..N |->
                from_u32(Vec([j \in 1..FE_BYTES |-> ByteAt(bytes, FE_BYTES * (i - 1) + j)]))]))

\* chunks_exact(FE_BYTES), limb = u32::from_le_bytes(chunk), out[i] = from_u32(limb)
bytes_to_field_array(N, bytes) ==
    IF Len(bytes) # N * FE_BYTES THEN None
    ELSE Some(Vec([i \in 1..N |->
                     from_u32(SubSeq(bytes, FE_BYTES * (i - 1) + 1, FE_BYTES * i))]))

\* The ? of decode_domains: the first None among the decoded items is returned
decode_domains_collect(items) ==
    IF \E j \in 1..Len(items) : ~items[j].some THEN None
    ELSE Some(Vec([j \in 1..Len(items) |-> items[j].v]))

\* A faulty variant of decode_domains: only a short item is rejected, a longer
\* one is read up to its first HASH_LEN_FE words.
decode_domains_prefix(input) ==
    decode_domains_collect(
        Vec([j \in 1..Len(input) |->
                IF Len(input[j]) < HASH_LEN_FE * FE_BYTES THEN None
                ELSE bytes_to_field_array(HASH_LEN_FE,
                                          SubSeq(input[j], 1, HASH_LEN_FE * FE_BYTES))]))

\* out.push(bytes_to_field_array::<HASH_LEN_FE>(item)?) for every item
decode_domains(input) ==
    decode_domains_collect(
        Vec([j \in 1..Len(input) |-> bytes_to_field_array(HASH_LEN_FE, input[j])]))

(***************************************************************************)
(* Codeword, chain walk and Merkle path (xmss_verify.rs:241-354).          *)
(* epoch and position are u32 words.                                       *)
(***************************************************************************)
poseidon_message_hash(parameter, epoch, randomness, message) ==
    decode_to_chunks(
        poseidon_compress24(MSG_HASH_LEN_FE,
                            randomness \o parameter \o encode_epoch(epoch)
                                \o encode_message(message)))

targetsim_codeword(parameter, epoch, randomness, message) ==
    poseidon_message_hash(parameter, epoch, randomness, message)

\* for offset in 0..steps: tweak = chain(epoch, chain_index, start_pos + offset + 1)
RECURSIVE walk_chain_from(_, _, _, _, _, _, _)
walk_chain_from(parameter, epoch, chain_index, start_pos, steps, offset, current) ==
    IF offset >= steps THEN current
    ELSE walk_chain_from(parameter, epoch, chain_index, start_pos, steps, offset + 1,
                         poseidon_apply(parameter,
                                        chain(epoch, chain_index, start_pos + offset + 1),
                                        <<current>>))

\* A faulty variant of walk_chain: one step more than asked for.
walk_chain_extra_step(parameter, epoch, chain_index, start_pos, steps, start) ==
    walk_chain_from(parameter, epoch, chain_index, start_pos, steps + 1, 0, start)

walk_chain(parameter, epoch, chain_index, start_pos, steps, start) ==
    IF steps = 0 THEN start
    ELSE walk_chain_from(parameter, epoch, chain_index, start_pos, steps, 0, start)

\* Lines 174-195: for (chain_index, (steps_seen, start_hash)) in
\* codeword.zip(chain_hashes).enumerate(), with chain_index as u8 and
\* remaining = (BASE - 1) - start_pos
chain_ends(parameter, epoch, codeword, chain_hashes) ==
    Vec([i \in 1..Min(Len(codeword), Len(chain_hashes)) |->
           walk_chain(parameter, epoch, (i - 1) % 256, codeword[i],
                      (BASE - 1) - codeword[i], chain_hashes[i])])

\* idx >> 1 on a u32 word
Shr1(idx) == DivWord(idx, 2, 0).q

\* A faulty variant of hash_tree_node: the tweak carries the level below.
hash_tree_node_level_below(parameter, level, children, idx) ==
    [current |-> poseidon_apply(parameter, tree(level, idx), children), idx |-> idx]

\* current = poseidon_apply(parameter, tree(level + 1, idx >> 1), children)
hash_tree_node(parameter, level, children, idx) ==
    [current |-> poseidon_apply(parameter, tree(level + 1, idx), children), idx |-> idx]

\* A faulty variant of hash_tree_level: the running node is always the left child.
hash_tree_level_left(parameter, path, st, level) ==
    hash_tree_node(parameter, level, <<st.current, path[level + 1]>>, Shr1(st.idx))

\* One level of the path; the loop state is [current, idx], level counts from 0.
hash_tree_level(parameter, path, st, level) ==
    hash_tree_node(parameter, level,
                   IF st.idx[1] % 2 = 0 THEN <<st.current, path[level + 1]>>
                   ELSE <<path[level + 1], st.current>>,
                   Shr1(st.idx))

\* for (level, sibling) in path.iter().enumerate(), from `level` on
RECURSIVE hash_tree_loop(_, _, _, _)
hash_tree_loop(parameter, path, st, level) ==
    IF ~Evaluated(st) \/ level >= Len(path) THEN st
    ELSE hash_tree_loop(parameter, path, hash_tree_level(parameter, path, st, level),
                        level + 1)

\* A faulty variant of hash_tree_verify: the folded value is not compared with
\* the root.
hash_tree_verify_any_root(parameter, root, position, leaf, path) ==
    Len(path) = TREE_HEIGHT

hash_tree_verify(parameter, root, position, leaf, path) ==
    IF Len(path) # TREE_HEIGHT THEN FALSE
    ELSE hash_tree_loop(parameter, path,
                        [current |-> poseidon_apply(parameter, tree(0, position), leaf),
                         idx |-> position],
                        0).current = root

(***************************************************************************)
(* Message encoding of the RISC Zero core                                  *)
(* (risc0/leansig_zkvm/core/src/encoding.rs:42-116).  A message is 32      *)
(* bytes, the two accumulators are u128 words.                             *)
(***************************************************************************)
\* acc = (acc << 8) | byte over the bytes in order: the bytes read as a
\* big-endian integer, held in a u128
big_endian_acc(bytes) == Reverse(bytes) \o Zeros(16 - Len(bytes))

\* let half = MSG_LEN_FE / 2 + 1
half == MSG_LEN_FE \div 2 + 1

\* The first 16 bytes give result[0..half], the last 16 give result[half..]
bytes_to_field_elements(message) ==
    WordBaseP(big_endian_acc(SubSeq(message, 1, 16)), Min(half, MSG_LEN_FE))
        \o WordBaseP(big_endian_acc(SubSeq(message, 17, Len(message))), MSG_LEN_FE - half)

\* acc = ((epoch as u128) << 8) | 0x02, then TWEAK_LEN base-p digits
build_message_tweak(epoch) ==
    WordBaseP(<<TWEAK_SEPARATOR_FOR_MESSAGE_HASH>> \o epoch \o Zeros(11), TWEAK_LEN_FE)

\* input = parameter || tweak || rho || msg_fe (lines 49-59)
message_hash_input(parameter, epoch, rho, message) ==
    parameter \o build_message_tweak(epoch) \o rho \o bytes_to_field_elements(message)

compute_message_hash(parameter, epoch, rho, message) ==
    poseidon_compress24(MSG_HASH_LEN_FE, message_hash_input(parameter, epoch, rho, message))

(***************************************************************************)
(* hash_tree_verify of the RISC Zero prototype                             *)
(* (risc0-leansig/leansig_zkvm/core/src/verify.rs:25-70).  co_path is a    *)
(* sequence of [hash, flag]; position is a u32 word.  The result is        *)
(* [panic, value].  `1 << depth` on a u64 is evaluated before the depth    *)
(* check: for depth >= 64 it panics in a build with overflow checks and    *)
(* shifts by depth % 64 in a build without, so the build is an argument.   *)
(* Tweak::tree_tweak and apply (crate::tweak_hash) are taken to be tree    *)
(* and poseidon_apply; the loop of lines 50-66 is the loop of the OpenVM   *)
(* hash_tree_verify.                                                       *)
(***************************************************************************)
Returns(value) == [panic |-> FALSE, value |-> value]

Panics == [panic |-> TRUE, value |-> FALSE]

\* (position as u64) >= num_leafs for num_leafs = 1 << shift, shift < 64
position_out_of_range(position, shift) == \E j \in shift..31 : BitOf(position, j) = 1

\* Lines 44-69
risc0_reconstruct(parameter, root, position, leaf, co_path) ==
    hash_tree_loop(parameter, Vec([l \in 1..Len(co_path) |-> co_path[l].hash]),
                   [current |-> poseidon_apply(parameter, tree(0, position), leaf),
                    idx |-> position],
                   0).current = root

\* Lines 36-42, negated: neither early return is taken
risc0_sanity_checks(depth, position) ==
    depth <= 32 /\ ~position_out_of_range(position, depth % 64)

risc0_hash_tree_verify(overflow_checks, parameter, root, position, leaf, co_path) ==
    IF Len(co_path) >= 64 /\ overflow_checks THEN Panics
    ELSE IF ~risc0_sanity_checks(Len(co_path), position) THEN Returns(FALSE)
    ELSE Returns(risc0_reconstruct(parameter, root, position, leaf, co_path))

(***************************************************************************)
(* verify_one (xmss_verify.rs:119-205).  verify_one_at returns the result  *)
(* together with the source line of the return statement that produced it; *)
(* the first hash evaluation is targetsim_codeword at line 169.            *)
(***************************************************************************)
Ret(ok, line) == [ok |-> ok, line |-> line]

\* A faulty variant of verify_codeword: the chains are not walked and the leaf
\* and the path are not hashed.
verify_codeword_unhashed(epoch, parameter, pk_root, chain_hashes, auth_path, codeword) ==
    IF Len(codeword) # NUM_CHAINS THEN Ret(FALSE, 171)
    ELSE IF \E i \in 1..Min(Len(codeword), Len(chain_hashes)) : codeword[i] >= BASE
    THEN Ret(FALSE, 182)
    ELSE Ret(TRUE, 197)

\* Lines 169-197, with the codeword computed at line 169
verify_codeword(epoch, parameter, pk_root, chain_hashes, auth_path, codeword) ==
    IF Len(codeword) # NUM_CHAINS THEN Ret(FALSE, 171)
    ELSE IF \E i \in 1..Min(Len(codeword), Len(chain_hashes)) : codeword[i] >= BASE
    THEN Ret(FALSE, 182)
    ELSE Ret(hash_tree_verify(parameter, pk_root, epoch,
                              chain_ends(parameter, epoch, codeword, chain_hashes),
                              auth_path), 197)

\* Lines 143-169, with the six decoded Options of lines 143-166
verify_decoded(epoch, randomness, parameter, pk_root, chain_hashes, auth_path, digest) ==
    IF ~randomness.some THEN Ret(FALSE, 146)
    ELSE IF ~parameter.some THEN Ret(FALSE, 150)
    ELSE IF ~pk_root.some THEN Ret(FALSE, 154)
    ELSE IF ~chain_hashes.some THEN Ret(FALSE, 158)
    ELSE IF ~auth_path.some THEN Ret(FALSE, 162)
    ELSE IF ~digest.some THEN Ret(FALSE, 166)
    ELSE verify_codeword(epoch, parameter.v, pk_root.v, chain_hashes.v, auth_path.v,
                         targetsim_codeword(parameter.v, epoch, randomness.v, digest.v))

\* A faulty variant of leaf_index_matches: the leaf index is not compared.
leaf_index_ignored(sig, epoch) == TRUE

\* sig.leaf_index != epoch (line 140), negated
leaf_index_matches(sig, epoch) == sig.leaf_index = epoch

verify_one_at(sig, pk, message, epoch) ==
    IF Len(sig.wots_chain_ends) # NUM_CHAINS THEN Ret(FALSE, 127)
    ELSE IF Len(sig.auth_path) # TREE_HEIGHT THEN Ret(FALSE, 130)
    ELSE IF Len(sig.randomness) # RANDOMNESS_LEN_FE * FE_BYTES THEN Ret(FALSE, 133)
    ELSE IF Len(pk.parameter) # PARAMETER_LEN_FE * FE_BYTES
            \/ Len(pk.root) # HASH_LEN_FE * FE_BYTES THEN Ret(FALSE, 138)
    ELSE IF ~leaf_index_matches(sig, epoch) THEN Ret(FALSE, 141)
    ELSE verify_decoded(epoch,
                        bytes_to_field_array(RANDOMNESS_LEN_FE, sig.randomness),
                        bytes_to_field_array(PARAMETER_LEN_FE, pk.parameter),
                        bytes_to_field_array(HASH_LEN_FE, pk.root),
                        decode_domains(sig.wots_chain_ends),
                        decode_domains(sig.auth_path),
                        digest_to_array(message))

verify_one(sig, pk, message, epoch) == verify_one_at(sig, pk, message, epoch).ok

\* A faulty variant of params_match: d0 and security_bits are compared as well.
params_match_all_fields(params) ==
    /\ params.w = 2 /\ params.v = NUM_CHAINS /\ params.tree_height = TREE_HEIGHT
    /\ params.d0 = 0 /\ params.security_bits = 128

params_match(params) ==
    params.w = 2 /\ params.v = NUM_CHAINS /\ params.tree_height = TREE_HEIGHT


(***************************************************************************)
(* Reference signer.  Key generation and signing live in the external      *)
(* leansig crate; this is the scheme as the specification describes it:    *)
(* chain i runs from its secret start (position 0) to its endpoint         *)
(* (position BASE-1), the signature publishes the value at position        *)
(* codeword[i], the leaf is the sponge hash of the endpoints under         *)
(* Tree(0, e), and the root folds the 18 levels.  The epoch e is an        *)
(* integer in 0 .. 2^TREE_HEIGHT - 1.                                      *)
(***************************************************************************)
U32(x) == IntToBytes(x, 4)

RECURSIVE Pow2(_)
Pow2(n) == IF n = 0 THEN 1 ELSE 2 * Pow2(n - 1)

\* The field elements written as canonical little-endian u32s, back to back.
FieldBytes(fe) ==
    Vec([k \in 1..(FE_BYTES * Len(fe)) |->
            (fe[((k - 1) \div FE_BYTES) + 1] \div Pow2(8 * ((k - 1) % FE_BYTES))) % 256])

\* <<value at position 0, value at position 1>> of chain i
SignerChain(parameter, e, i, start) ==
    <<start, poseidon_apply(parameter, chain(U32(e), i, 1), <<start>>)>>

\* The parent of `node` at level l (counted from 0) on the path of leaf e
SignerLevel(parameter, e, siblings, node, l) ==
    poseidon_apply(parameter, tree(l + 1, U32(e \div Pow2(l + 1))),
                   IF (e \div Pow2(l)) % 2 = 0 THEN <<node, siblings[l + 1]>>
                   ELSE <<siblings[l + 1], node>>)

RECURSIVE SignerRoot(_, _, _, _, _)
SignerRoot(parameter, e, siblings, node, l) ==
    IF ~Evaluated(node) \/ l >= TREE_HEIGHT THEN node
    ELSE SignerRoot(parameter, e, siblings, SignerLevel(parameter, e, siblings, node, l),
                    l + 1)

SignerExport(parameter, e, randomness, siblings, codeword, chains) ==
    [sig |-> [leaf_index |-> U32(e),
              randomness |-> FieldBytes(randomness),
              wots_chain_ends |->
                  Vec([i \in 1..NUM_CHAINS |-> FieldBytes(chains[i][codeword[i] + 1])]),
              auth_path |-> Vec([l \in 1..TREE_HEIGHT |-> FieldBytes(siblings[l])])],
     pk |-> [root |-> FieldBytes(SignerRoot(
                          parameter, e, siblings,
                          poseidon_apply(parameter, tree(0, U32(e)),
                                         Vec([i \in 1..NUM_CHAINS |-> chains[i][BASE]])),
                          0)),
             parameter |-> FieldBytes(parameter)]]

ReferenceSign(parameter, e, randomness, message, starts, siblings) ==
    SignerExport(parameter, e, randomness, siblings,
                 targetsim_codeword(parameter, U32(e), randomness, message),
                 Vec([i \in 1..NUM_CHAINS |-> SignerChain(parameter, e, i - 1, starts[i])]))


(***************************************************************************)
(* verify_batch (xmss_verify.rs:64-95).  The result is (all_valid, count); *)
(* the record also keeps the line of the return statement and, for every   *)
(* iteration of the loop, the index of the pair, the u32 epoch handed to   *)
(* verify_one and what verify_one returned.                                *)
(***************************************************************************)
\* A faulty variant of u32_try_from: `ep as u32`, which drops the high half.
u32_truncated(ep) == [some |-> TRUE, v |-> SubSeq(ep, 1, 4)]

\* u32::try_from(ep) for a u64 ep
u32_try_from(ep) ==
    IF IsZeroWord(SubSeq(ep, 5, 8)) THEN Some(SubSeq(ep, 1, 4)) ELSE None

Out(all_valid, count, calls, line) ==
    [all_valid |-> all_valid, count |-> count, calls |-> calls, line |-> line]

\* A faulty variant of verify_batch_count: only valid signatures are counted.
verify_batch_count_valid(epoch, st, i, r) ==
    [all_valid |-> st.all_valid /\ r.ok,
     count |-> IF r.ok THEN st.count + 1 ELSE st.count,
     calls |-> Append(st.calls, [index |-> i, epoch |-> epoch, ok |-> r.ok,
                                 line |-> r.line])]

\* all_valid &= verify_one(..); count += 1, with r what verify_one returned
verify_batch_count(epoch, st, i, r) ==
    [all_valid |-> st.all_valid /\ r.ok,
     count |-> st.count + 1,
     calls |-> Append(st.calls, [index |-> i, epoch |-> epoch, ok |-> r.ok,
                                 line |-> r.line])]

\* One iteration of `for (sig, pk) in signatures.iter().zip(public_keys.iter())`
verify_batch_step(batch, epoch, st, i) ==
    verify_batch_count(epoch, st, i,
                       verify_one_at(batch.witness.signatures[i],
                                     batch.statement.public_keys[i],
                                     batch.statement.m, epoch))

\* The iterations i, i + 1, ... of the loop; zip stops at the shorter vector
RECURSIVE verify_batch_loop(_, _, _, _)
\* A faulty variant of verify_batch_loop: the loop breaks at the first failure.
verify_batch_loop_break(batch, epoch, st, i) ==
    IF ~st.all_valid
       \/ i > Min(Len(batch.witness.signatures), Len(batch.statement.public_keys))
    THEN st
    ELSE verify_batch_loop(batch, epoch, verify_batch_step(batch, epoch, st, i), i + 1)

verify_batch_loop(batch, epoch, st, i) ==
    IF ~Evaluated(st)
       \/ i > Min(Len(batch.witness.signatures), Len(batch.statement.public_keys))
    THEN st
    ELSE verify_batch_loop(batch, epoch, verify_batch_step(batch, epoch, st, i), i + 1)

\* A faulty variant of verify_batch_return: an empty batch is not valid.
verify_batch_return_nonempty(st) == Out(st.all_valid /\ st.count > 0, st.count, st.calls, 94)

\* A faulty variant of verify_batch_return: a failed batch reports count 0.
verify_batch_return_reset(st) ==
    Out(st.all_valid, IF st.all_valid THEN st.count ELSE 0, st.calls, 94)

\* (all_valid, count) at line 94
verify_batch_return(st) == Out(st.all_valid, st.count, st.calls, 94)

verify_batch(batch) ==
    IF Len(batch.statement.public_keys) # batch.statement.k
       \/ Len(batch.witness.signatures) # batch.statement.k
    THEN Out(FALSE, 0, <<>>, 69)
    ELSE IF ~params_match(batch.params) THEN Out(FALSE, 0, <<>>, 73)
    ELSE IF ~u32_try_from(batch.statement.ep).some THEN Out(FALSE, 0, <<>>, 78)
    ELSE verify_batch_return(
             verify_batch_loop(batch, u32_try_from(batch.statement.ep).v,
                               [all_valid |-> TRUE, count |-> 0, calls |-> <<>>], 1))


(***************************************************************************)
(* Inputs.  The host signs one digest with NumKeys fresh keys at one epoch *)
(* (host/src/utils/input.rs:37-71); the guest then reads a batch, which is *)
(* the first k of the host's pairs or a variation of them.                 *)
(***************************************************************************)
\* Largest batch size k that is enumerated.
MaxK == 2

\* The epoch at which the variations of the batch are enumerated; at the two
\* boundary epochs 0 and 2^TREE_HEIGHT - 1 only the untouched batches are.
FullEpoch == 5

NumKeys == MaxK + 1

LastEpoch == Pow2(TREE_HEIGHT) - 1

HostEpochs == {0, FullEpoch, LastEpoch}

\* SHA-256("bench"), the digest the host signs
BenchDigest ==
    <<27, 50, 194, 140, 179, 140, 5, 72, 14, 204, 193, 189, 96, 255, 151, 2,
      155, 87, 160, 92, 150, 113, 139, 150, 218, 215, 233, 216, 72, 148, 245, 73>>

\* SHA-256(""), the digest of gen_input's minimal batch
EmptyDigest ==
    <<227, 176, 196, 66, 152, 252, 28, 20, 154, 251, 244, 200, 153, 111, 185, 36,
      39, 174, 65, 228, 100, 155, 147, 76, 164, 149, 153, 27, 120, 82, 184, 85>>

\* The seeded generator's output for key `seed`: a field element per (a, b).
Rnd(seed, a, b) ==
    AddF(AddF((a * 13000027) % FIELD_MODULUS, (b * 250000013) % FIELD_MODULUS),
         (seed * 1000003) % FIELD_MODULUS)

RndHash(seed, a) == Vec([b \in 1..HASH_LEN_FE |-> Rnd(seed, a, b)])

HostDigests == {BenchDigest, EmptyDigest}

HostKey(seed, e, m) ==
    ReferenceSign(Vec([b \in 1..PARAMETER_LEN_FE |-> Rnd(seed, 0, b)]),
                  e,
                  Vec([b \in 1..RANDOMNESS_LEN_FE |-> Rnd(seed, 1, b + 1)]),
                  m,
                  Vec([i \in 1..NUM_CHAINS |-> RndHash(seed, i)]),
                  Vec([l \in 1..TREE_HEIGHT |-> RndHash(seed + 7, l)]))

\* Variations of one (signature, key) pair.  In a batch of one pair that passes
\* the batch guards all of them are enumerated, in a longer batch and in a batch
\* that fails a guard the three of BatchVariants.
Variants ==
    {"chain_count", "path_count", "rand_len", "param_len", "root_len",
     "chain_elem_len", "path_elem_len", "leaf_index",
     "noncanon_rand", "noncanon_chain", "noncanon_path", "noncanon_root",
     "noncanon_param", "flip_root", "flip_root_msb",
     "flip_param", "flip_param_msb", "flip_chain", "flip_chain_msb",
     "flip_path", "flip_path_msb"}

BatchVariants == {"chain_count", "leaf_index", "flip_root"}

\* The first limb of a byte buffer replaced by limb + p (same residue, not canonical).
AddP(bytes) ==
    AddWords(SubSeq(bytes, 1, 4), U32(FIELD_MODULUS), 4).w \o SubSeq(bytes, 5, Len(bytes))

FlipBit0(b) == IF b % 2 = 0 THEN b + 1 ELSE b - 1

\* b ^ (1 << j) for a byte b
FlipBit(b, j) == IF (b \div Pow2(j)) % 2 = 0 THEN b + Pow2(j) ELSE b - Pow2(j)

Vary(pair, var, e) ==
        CASE var = "chain_count" ->
               [pair EXCEPT !.sig.wots_chain_ends = SubSeq(@, 1, NUM_CHAINS - 1)]
          [] var = "path_count" ->
               [pair EXCEPT !.sig.auth_path = SubSeq(@, 1, TREE_HEIGHT - 1)]
          [] var = "rand_len" ->
               [pair EXCEPT !.sig.randomness = SubSeq(@, 1, Len(@) - 1)]
          [] var = "param_len" ->
               [pair EXCEPT !.pk.parameter = SubSeq(@, 1, Len(@) - 1)]
          [] var = "root_len" ->
               [pair EXCEPT !.pk.root = SubSeq(@, 1, Len(@) - 1)]
          [] var = "chain_elem_len" ->
               [pair EXCEPT !.sig.wots_chain_ends[3] = SubSeq(@, 1, Len(@) - 1)]
          [] var = "path_elem_len" ->
               [pair EXCEPT !.sig.auth_path[2] = @ \o <<0>>]
          [] var = "leaf_index" ->
               [pair EXCEPT !.sig.leaf_index = U32(e + 1)]
          [] var = "noncanon_rand" ->
               [pair EXCEPT !.sig.randomness = AddP(@)]
          [] var = "noncanon_chain" ->
               [pair EXCEPT !.sig.wots_chain_ends[1] = AddP(@)]
          [] var = "noncanon_path" ->
               [pair EXCEPT !.sig.auth_path[1] = AddP(@)]
          [] var = "noncanon_root" ->
               [pair EXCEPT !.pk.root = AddP(@)]
          [] var = "noncanon_param" ->
               [pair EXCEPT !.pk.parameter = AddP(@)]
          [] var = "flip_root" ->
               [pair EXCEPT !.pk.root[1] = FlipBit0(@)]
          [] var = "flip_root_msb" ->
               [pair EXCEPT !.pk.root[HASH_LEN_FE * FE_BYTES] = FlipBit(@, 7)]
          [] var = "flip_param" ->
               [pair EXCEPT !.pk.parameter[1] = FlipBit0(@)]
          [] var = "flip_param_msb" ->
               [pair EXCEPT !.pk.parameter[PARAMETER_LEN_FE * FE_BYTES] = FlipBit(@, 7)]
          [] var = "flip_chain" ->
               [pair EXCEPT !.sig.wots_chain_ends[1][1] = FlipBit0(@)]
          [] var = "flip_chain_msb" ->
               [pair EXCEPT !.sig.wots_chain_ends[NUM_CHAINS][HASH_LEN_FE * FE_BYTES] =
                                FlipBit(@, 7)]
          [] var = "flip_path" ->
               [pair EXCEPT !.sig.auth_path[1][1] = FlipBit0(@)]
          [] var = "flip_path_msb" ->
               [pair EXCEPT !.sig.auth_path[TREE_HEIGHT][HASH_LEN_FE * FE_BYTES] =
                                FlipBit(@, 7)]
          [] OTHER -> pair

\* Variations of the rest of the batch; the first group fails a batch guard.
GuardContexts ==
    {"gen_input", "bad_w", "bad_v", "bad_th", "ep_2_32", "ep_wrap",
     "fewer_keys", "fewer_sigs", "more_keys", "more_sigs"}

PassContexts ==
    {"default", "info", "ep_next", "ep_u32max", "m31", "m33", "m_empty", "m_other"}

Contexts == GuardContexts \cup PassContexts

\* TslParams of the host's batch (input.rs:29-35) and its variations;
\* "gen_input" is the parameter set of host/src/bin/gen_input.rs:19-25.
ParamsOf(ctx) ==
    LET host == [w |-> 2, v |-> NUM_CHAINS, d0 |-> 0, security_bits |-> 128,
                 tree_height |-> TREE_HEIGHT]
    IN  CASE ctx = "info" -> [host EXCEPT !.d0 = 4, !.security_bits = 0]
          [] ctx = "gen_input" ->
               [w |-> 4, v |-> 4, d0 |-> 4, security_bits |-> 128, tree_height |-> 0]
          [] ctx = "bad_w" -> [host EXCEPT !.w = 3]
          [] ctx = "bad_v" -> [host EXCEPT !.v = NUM_CHAINS - 1]
          [] ctx = "bad_th" -> [host EXCEPT !.tree_height = TREE_HEIGHT - 1]
          [] OTHER -> host

\* statement.ep (u64, 8 bytes)
EpOf(ctx, e) ==
    CASE ctx = "ep_next" -> U32(e + 1) \o Zeros(4)
      [] ctx = "ep_u32max" -> <<255, 255, 255, 255, 0, 0, 0, 0>>
      [] ctx = "ep_2_32" -> <<0, 0, 0, 0, 1, 0, 0, 0>>
      [] ctx = "ep_wrap" -> U32(e) \o <<1, 0, 0, 0>>
      [] OTHER -> U32(e) \o Zeros(4)

\* statement.m, for the digest m the host signed
MessageOf(ctx, m) ==
    CASE ctx = "m31" -> SubSeq(m, 1, DIGEST_LEN - 1)
      [] ctx = "m33" -> m \o <<0>>
      [] ctx = "m_empty" -> <<>>
      [] ctx = "m_other" -> [m EXCEPT ![DIGEST_LEN] = FlipBit0(@)]
      [] OTHER -> m

\* A case names one batch: k, the context, the index of the varied pair
\* (0: none, k + 1: every pair) and the variation.  Every variation is applied
\* to the batch of one pair in the default context; batches of two and more
\* pairs take the three variations of BatchVariants, batches that fail a guard
\* take one, and the statement variations are applied to untouched batches of
\* at most two pairs.
Cases(mat) ==
    {c \in [k : 0..MaxK, ctx : Contexts, idx : 0..(MaxK + 1), var : Variants \cup {"valid"}] :
        /\ (c.idx = 0) = (c.var = "valid")
        /\ c.idx <= c.k \/ (c.idx = c.k + 1 /\ c.k >= 2)
        /\ (c.k >= 2 /\ c.idx # 0) => c.var \in BatchVariants
        /\ (c.ctx \in GuardContexts /\ c.idx # 0) => (c.var = "chain_count" /\ c.idx = 1)
        /\ c.ctx \in PassContexts \ {"default"} => (c.idx = 0 /\ c.k <= 2)
        /\ c.ctx \in {"fewer_keys", "fewer_sigs"} => c.k >= 1
        /\ (mat.e # FullEpoch \/ mat.m # BenchDigest) => (c.ctx = "default" /\ c.idx = 0)}

BuildBatch(mat, c) ==
    LET pair(i) == IF c.idx = i \/ c.idx = c.k + 1
                   THEN Vary(mat.keys[i], c.var, mat.e) ELSE mat.keys[i]
        npk == CASE c.ctx = "fewer_keys" -> c.k - 1
                 [] c.ctx = "more_keys" -> c.k + 1
                 [] OTHER -> c.k
        nsig == CASE c.ctx = "fewer_sigs" -> c.k - 1
                  [] c.ctx = "more_sigs" -> c.k + 1
                  [] OTHER -> c.k
    IN  [params |-> ParamsOf(c.ctx),
         statement |-> [k |-> c.k,
                        ep |-> EpOf(c.ctx, mat.e),
                        m |-> MessageOf(c.ctx, mat.m),
                        public_keys |-> Vec([i \in 1..npk |-> pair(i).pk])],
         witness |-> [signatures |-> Vec([i \in 1..nsig |-> pair(i).sig])]]

(***************************************************************************)
(* The places where the verifier can panic: assert!, slice copies, array   *)
(* conversions and u8 arithmetic.  Each operator is TRUE iff a place of    *)
(* the function panics for arguments of the given sizes.                   *)
(***************************************************************************)
\* poseidon_compress24/16: assert!(input.len() >= OUT_LEN), padded[..input.len()],
\* state[..OUT_LEN] for an input of n elements
poseidon_compress_aborts(width, OUT_LEN, n) ==
    n < OUT_LEN \/ n > width \/ OUT_LEN > width

\* poseidon_sponge24: assert!(capacity_value.len() < 24), state[rate..] and
\* out[..OUT_LEN] for a capacity of cap_len elements
poseidon_sponge24_aborts(OUT_LEN, cap_len) ==
    ~(cap_len < 24) \/ (24 - cap_len) + cap_len # 24

\* poseidon_safe_domain_separator24: compress24::<POSEIDON_CAPACITY_LEN> of 24 elements
poseidon_safe_domain_separator24_aborts ==
    poseidon_compress_aborts(24, POSEIDON_CAPACITY_LEN, 24)

\* A faulty variant of poseidon_apply_aborts: a pair is compressed at width 16.
poseidon_apply_aborts_narrow(n) ==
    CASE n = 1 -> poseidon_compress_aborts(16, HASH_LEN_FE, POSEIDON_INPUT_SINGLE)
      [] n = 2 -> poseidon_compress_aborts(16, HASH_LEN_FE, POSEIDON_INPUT_PAIR)
      [] OTHER -> \/ poseidon_safe_domain_separator24_aborts
                  \/ poseidon_sponge24_aborts(HASH_LEN_FE, POSEIDON_CAPACITY_LEN)

\* poseidon_apply for a message of n hashes
poseidon_apply_aborts(n) ==
    CASE n = 1 -> poseidon_compress_aborts(16, HASH_LEN_FE, POSEIDON_INPUT_SINGLE)
      [] n = 2 -> poseidon_compress_aborts(24, HASH_LEN_FE, POSEIDON_INPUT_PAIR)
      [] OTHER -> \/ poseidon_safe_domain_separator24_aborts
                  \/ poseidon_sponge24_aborts(HASH_LEN_FE, POSEIDON_CAPACITY_LEN)

\* walk_chain: start_pos + offset as u8 + 1 in u8, and the hash of one element
walk_chain_aborts(start_pos, steps) ==
    \E offset \in 0..(steps - 1) :
        \/ start_pos + (offset % 256) > 255
        \/ start_pos + (offset % 256) + 1 > 255
        \/ poseidon_apply_aborts(1)

\* verify_one, lines 180-193, for one chunk steps_seen of the codeword:
\* (BASE - 1) as u8 - start_pos in u8, then walk_chain
chain_step_aborts(steps_seen) ==
    IF steps_seen >= BASE THEN FALSE
    ELSE \/ (BASE - 1) - steps_seen < 0
         \/ walk_chain_aborts(steps_seen, (BASE - 1) - steps_seen)

\* hash_tree_verify for a leaf of leaf_len hashes and a path of path_len nodes:
\* level as u8 + 1 in u8, the hash of the leaf and of every pair
hash_tree_verify_aborts(leaf_len, path_len) ==
    IF path_len # TREE_HEIGHT THEN FALSE
    ELSE \/ poseidon_apply_aborts(leaf_len)
         \/ \E level \in 0..(path_len - 1) :
                (level % 256) + 1 > 255 \/ poseidon_apply_aborts(2)

\* poseidon_message_hash: compress24::<MSG_HASH_LEN_FE> of the combined input
poseidon_message_hash_aborts ==
    poseidon_compress_aborts(24, MSG_HASH_LEN_FE, MESSAGE_HASH_INPUT_LEN)

(***************************************************************************)
(* statement_commitment (xmss_verify.rs:97-111).  SHA-256 is an external   *)
(* crate (openvm_sha2); its place is taken by a function from byte strings *)
(* to 32 bytes in which every byte of the input and its position count.    *)
(***************************************************************************)
\* The sum of (buf[j] + 1) * (row of j) over the positions j = i, i + 32, ...
RECURSIVE ColumnSum(_, _, _)
ColumnSum(buf, j, acc) ==
    IF j > Len(buf) THEN acc
    ELSE ColumnSum(buf, j + DIGEST_LEN,
                   (acc + (buf[j] + 1) * (1 + (j - 1) \div DIGEST_LEN)) % 65536)

sha256(buf) ==
    Vec([i \in 1..DIGEST_LEN |->
            (ColumnSum(buf, i, Len(buf) + i) + ColumnSum(buf, (i % DIGEST_LEN) + 1, 0)) % 256])

\* A faulty variant of extend_keys: the parameter is written before the root.
RECURSIVE extend_keys_parameter_first(_, _, _)
extend_keys_parameter_first(buf, public_keys, i) ==
    IF i > Len(public_keys) THEN buf
    ELSE extend_keys_parameter_first(buf \o public_keys[i].parameter \o public_keys[i].root,
                                     public_keys, i + 1)

\* for pk in &stmt.public_keys { buf.extend(root); buf.extend(parameter) }
RECURSIVE extend_keys(_, _, _)
extend_keys(buf, public_keys, i) ==
    IF i > Len(public_keys) THEN buf
    ELSE extend_keys(buf \o public_keys[i].root \o public_keys[i].parameter,
                     public_keys, i + 1)

\* buf at line 110: k, ep, mlen, m, pklen, then the keys
statement_buf(stmt) ==
    extend_keys(IntToBytes(stmt.k, 4) \o stmt.ep
                    \o IntToBytes(Len(stmt.m), 4) \o stmt.m
                    \o IntToBytes(Len(stmt.public_keys), 4),
                stmt.public_keys, 1)

statement_commitment(stmt) == sha256(statement_buf(stmt))

(***************************************************************************)
(* The state machine: the host signs; the guest (guest/src/main.rs:8-24)   *)
(* reads the batch, runs verify_batch on it and reveals all_valid, count   *)
(* and the eight words of the statement commitment.  `journal` is the list *)
(* of the calls of reveal_u32 so far, h the commitment once computed.      *)
(* `calc` belongs to the second specification, CalcSpec below: one call of *)
(* a pure function, [fn, in, out], with out = <<>> until it is applied.    *)
(***************************************************************************)
VARIABLES pc, material, batch, ret, journal, h, calc

vars == <<pc, material, batch, ret, journal, h, calc>>

\* A call that is not yet applied
Call(fn, in) == [fn |-> fn, in |-> in, applied |-> FALSE, out |-> <<>>]

Idle == Call("none", <<>>)

\* reveal_u32(word, index): the call appended to the journal
reveal_u32(word, index) == Append(journal, [index |-> index, word |-> word])

NoBatch ==
    [params |-> [w |-> 0, v |-> 0, d0 |-> 0, security_bits |-> 0, tree_height |-> 0],
     statement |-> [k |-> 0, ep |-> Zeros(8), m |-> <<>>, public_keys |-> <<>>],
     witness |-> [signatures |-> <<>>]]

Init ==
    /\ pc = "host"
    /\ material = [e |-> 0, m |-> <<>>, keys |-> <<>>]
    /\ batch = NoBatch
    /\ ret = Out(FALSE, 0, <<>>, 0)
    /\ journal = <<>>
    /\ h = <<>>
    /\ calc = Idle

HostSign(e, m) ==
    /\ pc = "host"
    /\ material' = [e |-> e, m |-> m,
                    keys |-> Vec([seed \in 1..NumKeys |-> HostKey(seed, e, m)])]
    /\ pc' = "read"
    /\ UNCHANGED <<batch, ret, journal, h, calc>>

ReadBatch(c) ==
    /\ pc = "read"
    /\ batch' = BuildBatch(material, c)
    /\ pc' = "verify"
    /\ UNCHANGED <<material, ret, journal, h, calc>>

VerifyBatch ==
    /\ pc = "verify"
    /\ ret' = verify_batch(batch)
    /\ pc' = "reveal_valid"
    /\ UNCHANGED <<material, batch, journal, h, calc>>

\* reveal_u32(all_valid as u32, 0)
RevealAllValid ==
    /\ pc = "reveal_valid"
    /\ journal' = reveal_u32(U32(IF ret.all_valid THEN 1 ELSE 0), 0)
    /\ pc' = "reveal_count"
    /\ UNCHANGED <<material, batch, ret, h, calc>>

\* reveal_u32(count as u32, 1)
RevealCount ==
    /\ pc = "reveal_count"
    /\ journal' = reveal_u32(U32(ret.count), 1)
    /\ pc' = "commit"
    /\ UNCHANGED <<material, batch, ret, h, calc>>

\* let h = xmss_verify::statement_commitment(&batch.statement)
Commit ==
    /\ pc = "commit"
    /\ h' = statement_commitment(batch.statement)
    /\ pc' = "reveal_words"
    /\ UNCHANGED <<material, batch, ret, journal, calc>>

\* A faulty variant of RevealWord: chunk i is revealed at index i.
RevealWord_unshifted(i) ==
    /\ pc = "reveal_words"
    /\ i = Len(journal) - 2
    /\ journal' = reveal_u32(SubSeq(h, 4 * i + 1, 4 * i + 4), i)
    /\ pc' = IF 4 * (i + 1) >= Len(h) THEN "done" ELSE "reveal_words"
    /\ UNCHANGED <<material, batch, ret, h, calc>>

\* One iteration of the loop over h.chunks(4).enumerate(): chunk i is revealed
\* at index 2 + i.
RevealWord(i) ==
    /\ pc = "reveal_words"
    /\ i = Len(journal) - 2
    /\ journal' = reveal_u32(SubSeq(h, 4 * i + 1, 4 * i + 4), 2 + i)
    /\ pc' = IF 4 * (i + 1) >= Len(h) THEN "done" ELSE "reveal_words"
    /\ UNCHANGED <<material, batch, ret, h, calc>>

Next ==
    \/ \E e \in HostEpochs, m \in HostDigests : HostSign(e, m)
    \/ \E c \in Cases(material) : ReadBatch(c)
    \/ VerifyBatch
    \/ RevealAllValid
    \/ RevealCount
    \/ Commit
    \/ \E i \in 0..((DIGEST_LEN \div 4) - 1) : RevealWord(i)

Spec == Init /\ [][Next]_vars

(***************************************************************************)
(* The minimal KoalaBear field of shared/leansig-core/src/koalabear.rs.    *)
(* A stored value is a u32; u64 intermediates are 8-byte words.            *)
(***************************************************************************)
P == 2130706433

\* Self(value % P) for a u32 given by its four bytes
kb_new(value) == DivWord(value, P, 0).r

\* A faulty variant of kb_add: one conditional subtraction that lets the sum P
\* through unreduced.
kb_add_lazy(a, b) == IF a > P - b THEN a - (P - b) ELSE a + b

\* sum = self.0 as u64 + rhs.0 as u64; Self((sum % P as u64) as u32)
kb_add(a, b) == DivWord(AddWords(IntToBytes(a, 8), IntToBytes(b, 8), 8).w, P, 0).r

\* self.0 - rhs.0 if self.0 >= rhs.0, else P - rhs.0 + self.0
kb_sub(a, b) == IF a >= b THEN a - b ELSE (P - b) + a

\* The subtraction P - rhs.0 of kb_sub leaves the u32 range
kb_sub_underflows(a, b) == a < b /\ P - b < 0

\* prod = self.0 as u64 * rhs.0 as u64; Self((prod % P as u64) as u32)
kb_mul(a, b) == DivWord(MulWords(IntToBytes(a, 4), IntToBytes(b, 4)), P, 0).r

\* self if self.0 == 0, else Self(P - self.0)
kb_neg(a) == IF a = 0 THEN a ELSE P - a

\* The subtraction P - self.0 of kb_neg leaves the u32 range
kb_neg_underflows(a) == a # 0 /\ P - a < 0

(***************************************************************************)
(* CalcSpec: the pure functions of the verifier applied to inputs drawn    *)
(* from bounded sets.  The initial state holds the call, the action of the *)
(* function applies it.                                                    *)
(***************************************************************************)
\* Number of seeds of the generator from which field elements are drawn
MaxSeed == 1

\* Calls of mul_small, add_small and div_small made on one SmallBigUint
MaxOps == 4

\* Vectors of n field elements: all 0, all p - 1, and generated ones
FieldVecs(n) ==
    {Vec([b \in 1..n |-> 0]), Vec([b \in 1..n |-> FIELD_MODULUS - 1])}
        \cup {Vec([b \in 1..n |-> Rnd(seed, 40 + n, b)]) : seed \in 1..MaxSeed}

\* u32 values as 4 bytes
WordSamples == {<<0, 0, 0, 0>>, <<1, 0, 0, 0>>, <<255, 255, 255, 255>>}

MessageSamples ==
    {BenchDigest, EmptyDigest, Zeros(DIGEST_LEN), Vec([b \in 1..DIGEST_LEN |-> 255])}

CodewordCalls ==
    {Call("targetsim_codeword", x) :
        x \in [parameter : FieldVecs(PARAMETER_LEN_FE), epoch : WordSamples \ {<<1, 0, 0, 0>>},
               randomness : FieldVecs(RANDOMNESS_LEN_FE), message : MessageSamples]}

\* Stored values < P of the minimal field
FieldSamples ==
    {0, 1, 2, 100, 200, 12345, 65536, 1073741824, P - 2, P - 1}
        \cup {Rnd(seed, 50, 1) : seed \in 1..MaxSeed}

KoalaBearCalls ==
    {Call("new", x) : x \in WordSamples \cup {IntToBytes(P - 1, 4), IntToBytes(P, 4),
                                               <<2, 0, 0, 127>>, <<0, 0, 0, 128>>}}
        \cup {Call(fn, x) : fn \in {"add", "sub", "mul"}, x \in FieldSamples \X FieldSamples}
        \cup {Call("neg", x) : x \in FieldSamples}

\* Tweaks of the three variants, with the least and greatest field values
TweakSamples ==
    {tree(level, pos) : level \in {0, 1, 255}, pos \in WordSamples}
        \cup {chain(epoch, chain_index, pos_in_chain) :
                 epoch \in WordSamples, chain_index \in {0, 255}, pos_in_chain \in {0, 1, 255}}
        \cup {[kind |-> "Message", epoch |-> epoch] : epoch \in WordSamples}

TweakCalls == {Call("tweaks", x) : x \in TweakSamples \X TweakSamples}

\* Message-hash outputs: all zero, all p - 1, pseudo-random, and one nonzero
\* element at either end
DecodeCalls ==
    {Call("decode_to_chunks", fe) :
        fe \in FieldVecs(MSG_HASH_LEN_FE)
                \cup {Vec([i \in 1..MSG_HASH_LEN_FE |-> IF i = at THEN v ELSE 0]) :
                         at \in {1, MSG_HASH_LEN_FE}, v \in {1, FIELD_MODULUS - 1}}}

\* Constructions of a SmallBigUint: zero(), from_u64 of 0, 1, 2^32 and 2^64 - 1,
\* from_le_bytes of buffers with and without zero bytes at the top
SmallBigUintCalls ==
    {Call("SmallBigUint", [ctor |-> "zero", arg |-> <<>>])}
        \cup {Call("SmallBigUint", [ctor |-> "from_u64", arg |-> v]) :
                 v \in {Zeros(8), <<1>> \o Zeros(7), Zeros(4) \o <<1, 0, 0, 0>>,
                        Vec([b \in 1..8 |-> 255])}}
        \cup {Call("SmallBigUint", [ctor |-> "from_le_bytes", arg |-> v]) :
                 v \in {<<>>, <<0>>, Zeros(5), <<1>> \o Zeros(7), <<0, 0, 0, 0, 7>>,
                        Vec([b \in 1..9 |-> 255])}}

\* Pairs of 32-byte digests, among them digests one bit apart at either end
DigestSamples ==
    MessageSamples
        \cup {[Zeros(DIGEST_LEN) EXCEPT ![at] = v] : at \in {1, DIGEST_LEN}, v \in {1, 128}}
        \cup {[Vec([b \in 1..DIGEST_LEN |-> 255]) EXCEPT ![DIGEST_LEN] = 127]}

EncodeCalls == {Call("encode_message", x) : x \in DigestSamples \X DigestSamples}

\* Codewords: all 1 (no step), all 0 (one step everywhere), alternating, and
\* pseudo-random bits, over pseudo-random chain tips
CodewordSamples ==
    {Vec([i \in 1..NUM_CHAINS |-> 1]), Zeros(NUM_CHAINS), Vec([i \in 1..NUM_CHAINS |-> i % 2])}
        \cup {Vec([i \in 1..NUM_CHAINS |-> Rnd(seed, i, 3) % 2]) : seed \in 1..MaxSeed}

ChainCalls ==
    {Call("chain_ends", x) :
        x \in [parameter : FieldVecs(PARAMETER_LEN_FE) \ {Zeros(PARAMETER_LEN_FE)},
               epoch : WordSamples,
               codeword : CodewordSamples,
               chain_hashes : {Vec([i \in 1..NUM_CHAINS |-> RndHash(seed, i)]) :
                                 seed \in 1..MaxSeed}]}

\* word >> n on a u32 word: whole bytes first, then the bits left
ShiftRight(word, n) ==
    IF n >= 32 THEN Zeros(4)
    ELSE DivWord(SubSeq(word, (n \div 8) + 1, 4) \o Zeros(n \div 8), Pow2(n % 8), 0).q

\* The node at level l on the path of `position`, from the node below: the
\* two-block hash under Tree(l, position >> l) of the node below and its
\* sibling path[l], the node below on the left when bit l - 1 of position is 0
PathNodeAbove(parameter, position, path, l, below) ==
    poseidon_apply(parameter, tree(l, ShiftRight(position, l)),
                   IF BitOf(position, l - 1) = 0 THEN <<below, path[l]>>
                   ELSE <<path[l], below>>)

\* The node at level `top`, given the node at level l - 1
RECURSIVE PathNodeFrom(_, _, _, _, _, _)
PathNodeFrom(parameter, position, path, l, top, below) ==
    IF ~Evaluated(below) \/ l > top THEN below
    ELSE PathNodeFrom(parameter, position, path, l + 1, top,
                      PathNodeAbove(parameter, position, path, l, below))

\* The node `top` levels above the leaves: level 0 is the sponge hash of the
\* leaf under Tree(0, position)
PathNode(parameter, position, leaf, path, top) ==
    PathNodeFrom(parameter, position, path, 1, top,
                 poseidon_apply(parameter, tree(0, position), leaf))

\* Leaves and paths for the tree check: positions 0, 1, 2^18 - 1, 2^18 and
\* 2^32 - 1 and one of mixed bits, paths of 18 nodes and of 0, 17 and 19 nodes,
\* the root either the node 18 levels up or another value
TreeLeaf == Vec([i \in 1..NUM_CHAINS |-> RndHash(1, i)])

TreePath(n) == Vec([l \in 1..n |-> RndHash(1, 100 + l)])

TreePositions ==
    WordSamples \cup {<<255, 255, 3, 0>>, <<0, 0, 4, 0>>, <<165, 90, 2, 0>>}

TreeCalls ==
    {Call("hash_tree_verify",
          [parameter |-> parameter, position |-> position, leaf |-> TreeLeaf,
           path |-> TreePath(TREE_HEIGHT),
           root |-> IF good
                    THEN PathNode(parameter, position, TreeLeaf, TreePath(TREE_HEIGHT),
                                  TREE_HEIGHT)
                    ELSE RndHash(1, 99)]) :
        parameter \in {Vec([b \in 1..PARAMETER_LEN_FE |-> Rnd(seed, 45, b)]) :
                          seed \in 1..MaxSeed},
        position \in TreePositions, good \in BOOLEAN}
      \cup
    {Call("hash_tree_verify",
          [parameter |-> Zeros(PARAMETER_LEN_FE), position |-> <<1, 0, 0, 0>>,
           leaf |-> TreeLeaf, path |-> TreePath(n), root |-> RndHash(1, 99)]) :
        n \in {0, TREE_HEIGHT - 1, TREE_HEIGHT + 1}}

\* Sponge calls: capacity blocks of 9, 23 and 0 lanes (rates 15, 1 and 24),
\* inputs shorter than, equal to and longer than one and two rates, outputs
\* shorter and longer than the rate
SpongeInput(n) == Vec([i \in 1..n |-> Rnd(1, i, 5)])

SpongeShapes ==
    ({POSEIDON_CAPACITY_LEN} \X {0, 1, 14, 15, 16, 30, 31} \X {HASH_LEN_FE, 16})
        \cup ({23} \X {0, 1, 3} \X {2})
        \cup ({0} \X {0, 23, 24, 25} \X {HASH_LEN_FE})

SpongeCalls ==
    {Call("sponge", [capacity_value |-> Vec([i \in 1..sh[1] |-> Rnd(seed, i, 6)]),
                     input |-> SpongeInput(sh[2]), OUT_LEN |-> sh[3]]) :
        sh \in SpongeShapes, seed \in 1..MaxSeed}

\* Calls of the prototype's tree check: co-paths of 0, 1, 2 and 32 entries
\* with positions inside and outside the tree, the root the reconstructed
\* node or not, and co-paths of 33, 63, 64 and 65 entries
CoPath(depth) == Vec([l \in 1..depth |-> [hash |-> RndHash(1, 100 + l), flag |-> l % 2 = 0]])

PrototypeLeaf == <<RndHash(1, 1), RndHash(1, 2)>>

PrototypeCalls ==
    {Call("risc0_hash_tree_verify",
          [parameter |-> Zeros(PARAMETER_LEN_FE), position |-> position,
           leaf |-> PrototypeLeaf, co_path |-> CoPath(depth),
           root |-> IF good
                    THEN PathNode(Zeros(PARAMETER_LEN_FE), position, PrototypeLeaf,
                                  TreePath(depth), depth)
                    ELSE RndHash(1, 99)]) :
        depth \in {0, 1, 2, 32}, position \in WordSamples \cup {<<3, 0, 0, 0>>, <<4, 0, 0, 0>>},
        good \in BOOLEAN}
      \cup
    {Call("risc0_hash_tree_verify",
          [parameter |-> Zeros(PARAMETER_LEN_FE), position |-> position,
           leaf |-> PrototypeLeaf, co_path |-> CoPath(depth), root |-> RndHash(1, 99)]) :
        depth \in {33, 63, 64, 65}, position \in WordSamples}

\* Calls of verify_one on a pair made by the forward computation of the signer
\* (hash the chains, fold the path, publish the node reached as the root) at
\* leaf index e: the last leaf of the tree, the first index outside it, and
\* one far out; the epoch is e, or 0 for a mismatch
LeafIndices == {LastEpoch, LastEpoch + 1, Pow2(30)}

VerifyOneCall(pair, epoch) ==
    Call("verify_one", [sig |-> pair.sig, pk |-> pair.pk, message |-> BenchDigest,
                        epoch |-> epoch])

VerifyOneCallsAt(e, pair) == {VerifyOneCall(pair, U32(e)), VerifyOneCall(pair, U32(0))}

VerifyOneCalls ==
    UNION {VerifyOneCallsAt(e, HostKey(1, e, BenchDigest)) : e \in LeafIndices}

\* Statements: one of a single key with a 28-byte root and a 20-byte
\* parameter, and statements that differ from it in k, ep, m, the number of
\* keys, one root or parameter byte, or in where the 48 key bytes are split
\* into root and parameter
KeyOf(bytes, at) == [root |-> SubSeq(bytes, 1, at), parameter |-> SubSeq(bytes, at + 1, Len(bytes))]

KeyBytes(n) == Vec([b \in 1..n |-> (7 * b) % 256])

StatementOf(k, ep, m, public_keys) == [k |-> k, ep |-> ep, m |-> m, public_keys |-> public_keys]

StatementSamples ==
    {StatementOf(k, U32(5) \o Zeros(4), BenchDigest, <<KeyOf(KeyBytes(48), 28)>>) : k \in {1, 2}}
      \cup {StatementOf(1, ep, BenchDigest, <<KeyOf(KeyBytes(48), 28)>>) :
               ep \in {U32(6) \o Zeros(4), U32(5) \o U32(1)}}
      \cup {StatementOf(1, U32(5) \o Zeros(4), m, <<KeyOf(KeyBytes(48), 28)>>) :
               m \in {EmptyDigest, <<>>, SubSeq(BenchDigest, 1, DIGEST_LEN - 1),
                      BenchDigest \o <<0>>}}
      \cup {StatementOf(1, U32(5) \o Zeros(4), BenchDigest, keys) :
               keys \in {<<>>, <<KeyOf(KeyBytes(48), 28), KeyOf(KeyBytes(48), 28)>>,
                         <<KeyOf([KeyBytes(48) EXCEPT ![1] = 0], 28)>>,
                         <<KeyOf([KeyBytes(48) EXCEPT ![48] = 0], 28)>>,
                         <<KeyOf(KeyBytes(48), 29)>>, <<KeyOf(KeyBytes(48), 48)>>,
                         <<KeyOf(KeyBytes(96), 28), KeyOf(SubSeq(KeyBytes(96), 49, 96), 28)>>,
                         <<KeyOf(KeyBytes(96), 30), KeyOf(SubSeq(KeyBytes(96), 51, 96), 26)>>}}

CommitmentCalls == {Call("statement_commitment", x) : x \in StatementSamples \X StatementSamples}

\* p^4 as a u128: the number of values four base-p digits can take
FourLanes ==
    MulWords(MulWords(IntToBytes(FIELD_MODULUS, 4), IntToBytes(FIELD_MODULUS, 4)),
             MulWords(IntToBytes(FIELD_MODULUS, 4), IntToBytes(FIELD_MODULUS, 4)))

\* 16 message bytes whose big-endian value is the u128 `word`
HalfOf(word) == Reverse(word)

\* Halves of a message: 0, 1, p^4 - 1 .. p^4 + 1, 2^128 - 1 and the halves of
\* the benchmark digest
FirstHalves ==
    {Zeros(16), HalfOf(<<1>> \o Zeros(15)), HalfOf(FourLanes),
     Vec([b \in 1..16 |-> 255]), SubSeq(BenchDigest, 1, 16)}

SecondHalves ==
    {Zeros(16), HalfOf(<<1>> \o Zeros(15)), HalfOf(FourLanes),
     HalfOf(AddWords(FourLanes, <<1>>, 16).w),
     HalfOf(AddWords(FourLanes, Vec([b \in 1..16 |-> 255]), 16).w),
     Vec([b \in 1..16 |-> 255]), SubSeq(BenchDigest, 17, 32)}

Risc0Messages == {a \o b : a \in FirstHalves, b \in SecondHalves}

\* Two messages hashed under one parameter, epoch and randomness
MessageHashCalls ==
    {Call("compute_message_hash",
          [parameter |-> Vec([b \in 1..PARAMETER_LEN_FE |-> Rnd(1, 0, b)]),
           epoch |-> epoch,
           rho |-> Vec([b \in 1..RANDOMNESS_LEN_FE |-> Rnd(1, 1, b + 1)]),
           message |-> x]) :
        epoch \in {<<5, 0, 0, 0>>}, x \in Risc0Messages \X Risc0Messages}

CalcCalls ==
    MessageHashCalls \cup CommitmentCalls \cup VerifyOneCalls \cup PrototypeCalls \cup SpongeCalls \cup TreeCalls \cup ChainCalls \cup EncodeCalls \cup CodewordCalls \cup KoalaBearCalls \cup TweakCalls \cup DecodeCalls \cup SmallBigUintCalls

CalcInit ==
    /\ pc = "calc"
    /\ material = [e |-> 0, m |-> <<>>, keys |-> <<>>]
    /\ batch = NoBatch
    /\ ret = Out(FALSE, 0, <<>>, 0)
    /\ journal = <<>>
    /\ h = <<>>
    /\ calc \in CalcCalls

\* calc.out becomes the value of the call
Apply(fn, out) ==
    /\ pc = "calc"
    /\ calc.fn = fn
    /\ ~calc.applied
    /\ calc' = [calc EXCEPT !.applied = TRUE, !.out = out]
    /\ UNCHANGED <<pc, material, batch, ret, journal, h>>

ApplyCodeword ==
    Apply("targetsim_codeword",
          targetsim_codeword(calc.in.parameter, calc.in.epoch, calc.in.randomness,
                             calc.in.message))

\* The field elements a tweak is hashed as: encode_epoch for the message hash,
\* to_field_elements for tree and chain hashes
tweak_elements(tweak) ==
    IF tweak.kind = "Message" THEN encode_epoch(tweak.epoch) ELSE to_field_elements(tweak)

ApplyTweaks == Apply("tweaks", <<tweak_elements(calc.in[1]), tweak_elements(calc.in[2])>>)

ApplyDecode == Apply("decode_to_chunks", decode_to_chunks(calc.in))

\* The limb vector a constructor call leaves
constructed(c) ==
    CASE c.ctor = "zero" -> zero
      [] c.ctor = "from_u64" -> from_u64(c.arg)
      [] c.ctor = "from_le_bytes" -> from_le_bytes(c.arg)

\* A SmallBigUint with the number of calls made on it, the last call with its
\* argument and return value, and the limbs and limb count before that call
BigUintState(limbs, ops, last, was, prev, arg, rem) ==
    [limbs |-> limbs, ops |-> ops, last |-> last, was |-> was, prev |-> prev,
     arg |-> arg, rem |-> rem]

Construct ==
    Apply("SmallBigUint",
          BigUintState(constructed(calc.in), 0, calc.in.ctor, 0, <<>>, <<>>, 0))

\* One &mut self call on the constructed value
Mutate(last, arg, limbs, rem) ==
    /\ pc = "calc"
    /\ calc.fn = "SmallBigUint"
    /\ calc.applied
    /\ calc.out.ops < MaxOps
    /\ calc' = [calc EXCEPT !.out = BigUintState(limbs, calc.out.ops + 1, last,
                                                 Len(calc.out.limbs), calc.out.limbs,
                                                 arg, rem)]
    /\ UNCHANGED <<pc, material, batch, ret, journal, h>>

MulSmall(mul) == Mutate("mul_small", mul, mul_small(calc.out.limbs, mul), 0)

AddSmall(add) == Mutate("add_small", add, add_small(calc.out.limbs, add), 0)

\* d is the result of div_small: the limbs left and the remainder returned
DivSmallResult(divisor, d) == Mutate("div_small", divisor, d.limbs, d.rem)

DivSmall(divisor) == DivSmallResult(divisor, div_small(calc.out.limbs, divisor))

\* Divisors below 2^31: 0 (the early return), BASE and FIELD_MODULUS
Divisors == {0, BASE, FIELD_MODULUS}

ApplyEncode ==
    Apply("encode_message", <<encode_message(calc.in[1]), encode_message(calc.in[2])>>)

ApplyChainEnds ==
    Apply("chain_ends", chain_ends(calc.in.parameter, calc.in.epoch, calc.in.codeword,
                                   calc.in.chain_hashes))

ApplyTreeVerify ==
    Apply("hash_tree_verify",
          hash_tree_verify(calc.in.parameter, calc.in.root, calc.in.position, calc.in.leaf,
                           calc.in.path))

\* Both sponges on one capacity block and input, with the permutation calls of
\* their absorb phases
ApplySponge ==
    Apply("sponge",
          [openvm |-> poseidon_sponge24(calc.in.OUT_LEN, calc.in.capacity_value,
                                        calc.in.input),
           openvm_permutes |->
               sponge24_absorb_permutes(24 - Len(calc.in.capacity_value),
                                        Len(calc.in.input), 0, 0),
           risc0 |-> poseidon_sponge(calc.in.OUT_LEN, calc.in.capacity_value,
                                     calc.in.input),
           risc0_permutes |->
               risc0_absorbed(24 - Len(calc.in.capacity_value), calc.in.capacity_value,
                              risc0_input_vector(24 - Len(calc.in.capacity_value),
                                                 calc.in.input)).permutes])

\* The prototype's tree check in a build with or without overflow checks
ApplyPrototypeTreeVerify ==
    \E overflow_checks \in BOOLEAN :
        Apply("risc0_hash_tree_verify",
              risc0_hash_tree_verify(overflow_checks, calc.in.parameter, calc.in.root,
                                     calc.in.position, calc.in.leaf, calc.in.co_path))

ApplyVerifyOne ==
    Apply("verify_one",
          verify_one_at(calc.in.sig, calc.in.pk, calc.in.message, calc.in.epoch))

\* statement_commitment on two statements: the buffers hashed and the digests
ApplyCommitment ==
    Apply("statement_commitment",
          [buf |-> <<statement_buf(calc.in[1]), statement_buf(calc.in[2])>>,
           h |-> <<statement_commitment(calc.in[1]), statement_commitment(calc.in[2])>>])

\* compute_message_hash on both messages, with the element arrays and the
\* compression inputs it builds
ApplyMessageHash ==
    Apply("compute_message_hash",
          [fe |-> Vec([j \in 1..2 |-> bytes_to_field_elements(calc.in.message[j])]),
           input |-> Vec([j \in 1..2 |->
                            message_hash_input(calc.in.parameter, calc.in.epoch, calc.in.rho,
                                               calc.in.message[j])]),
           hash |-> Vec([j \in 1..2 |->
                           compute_message_hash(calc.in.parameter, calc.in.epoch, calc.in.rho,
                                                calc.in.message[j])])])

ApplyNew == Apply("new", kb_new(calc.in))

ApplyAdd == Apply("add", kb_add(calc.in[1], calc.in[2]))

ApplySub == Apply("sub", kb_sub(calc.in[1], calc.in[2]))

ApplyMul == Apply("mul", kb_mul(calc.in[1], calc.in[2]))

ApplyNeg == Apply("neg", kb_neg(calc.in))

CalcNext ==
    \/ ApplyCodeword
    \/ ApplyNew
    \/ ApplyAdd
    \/ ApplySub
    \/ ApplyMul
    \/ ApplyNeg
    \/ ApplyTweaks
    \/ ApplyDecode
    \/ ApplyEncode
    \/ ApplyChainEnds
    \/ ApplyTreeVerify
    \/ ApplySponge
    \/ ApplyPrototypeTreeVerify
    \/ ApplyVerifyOne
    \/ ApplyCommitment
    \/ ApplyMessageHash
    \/ Construct
    \/ \E mul \in WordSamples : MulSmall(mul)
    \/ \E add \in WordSamples : AddSmall(add)
    \/ \E divisor \in Divisors : DivSmall(divisor)

CalcSpec == CalcInit /\ [][CalcNext]_vars


(***************************************************************************)
(* Properties.  They are stated on the state in which the guest has        *)
(* finished: `batch` is what it read, `ret` what verify_batch returned.    *)
(***************************************************************************)
Done == pc = "done"

\* (all_valid, count) of a result of verify_batch
Pair(r) == <<r.all_valid, r.count>>

Returned == Pair(ret)

K == batch.statement.k

Sig(i) == batch.witness.signatures[i]

Pk(i) == batch.statement.public_keys[i]

\* The three batch guards, read off the batch
PairLengthsOk ==
    Len(batch.statement.public_keys) = K /\ Len(batch.witness.signatures) = K

ParamsOk ==
    batch.params.w = 2 /\ batch.params.v = 155 /\ batch.params.tree_height = 18

\* ep <= u32::MAX: the high four bytes of the u64 are zero
EpochOk == \A i \in 5..8 : batch.statement.ep[i] = 0

GuardsPass == PairLengthsOk /\ ParamsOk /\ EpochOk

\* C1: verify_batch returns count = statement.k when the three batch guards
\* pass, and exactly (false, 0) when one of them fails.
C1_CountIsKOrZero ==
    Done => IF GuardsPass THEN ret.count = K ELSE Returned = <<FALSE, 0>>

\* A batch of MaxK pairs that passes the guards and holds a bad signature
C1_Witness == Done /\ GuardsPass /\ K = MaxK /\ ~ret.all_valid /\ ret.count = MaxK

\* The transposition of the first two indices and the rotation by one: every
\* permutation of 1..k is a product of these two.
Reorderings(k) ==
    IF k < 2 THEN {}
    ELSE {[i \in 1..k |-> IF i = 1 THEN 2 ELSE IF i = 2 THEN 1 ELSE i],
          [i \in 1..k |-> (i % k) + 1]}

\* The batch with both lists reordered by the permutation f of 1..k
Permuted(b, f) ==
    [b EXCEPT !.statement.public_keys = Vec([i \in 1..Len(f) |-> b.statement.public_keys[f[i]]]),
              !.witness.signatures = Vec([i \in 1..Len(f) |-> b.witness.signatures[f[i]]])]

\* C2: once the guards pass, verify_one is evaluated on every index-aligned
\* pair, all_valid is the conjunction of the k results, and reordering both
\* lists by the same permutation leaves (all_valid, count) unchanged.
C2_EveryPairVerified ==
    (Done /\ GuardsPass) =>
        /\ Len(ret.calls) = K
        /\ \A i \in 1..K :
              /\ ret.calls[i].index = i
              /\ ret.calls[i].ok = verify_one(Sig(i), Pk(i), batch.statement.m,
                                              SubSeq(batch.statement.ep, 1, 4))
        /\ ret.all_valid = (\A i \in 1..K : ret.calls[i].ok)
        /\ \A f \in Reorderings(K) : Pair(verify_batch(Permuted(batch, f))) = Returned

\* A bad first signature followed by a good one: the loop went on
C2_Witness ==
    /\ Done /\ GuardsPass /\ K >= 2
    /\ ~ret.calls[1].ok /\ ret.calls[K].ok
    /\ Returned = <<FALSE, K>>

\* C3: a batch with k = 0, no keys, no signatures, supported params and an
\* epoch that fits returns (true, 0).
C3_EmptyBatch ==
    (/\ Done /\ K = 0
     /\ Len(batch.statement.public_keys) = 0 /\ Len(batch.witness.signatures) = 0
     /\ ParamsOk /\ EpochOk) => Returned = <<TRUE, 0>>

C3_Witness ==
    /\ Done /\ K = 0 /\ GuardsPass
    /\ Len(batch.statement.m) = DIGEST_LEN
    /\ Returned = <<TRUE, 0>>

\* The same params with other values in the two informational fields
OtherInfo(params) ==
    [params EXCEPT !.d0 = IF @ = 0 THEN 4 ELSE 0,
                   !.security_bits = IF @ = 128 THEN 0 ELSE 128]

\* C4: verify_batch returns (false, 0) whenever params violates w = 2, v = 155
\* or tree_height = 18, and d0 and security_bits never influence the result.
C4_ParamsGuard ==
    Done =>
        /\ ~ParamsOk => Returned = <<FALSE, 0>>
        /\ Pair(verify_batch([batch EXCEPT !.params = OtherInfo(@)])) = Returned

\* The empty batch of gen_input: w = 4, v = 4, tree_height = 0
C4_Witness ==
    /\ Done /\ K = 0 /\ PairLengthsOk /\ EpochOk
    /\ batch.params.w = 4 /\ batch.params.v = 4 /\ batch.params.tree_height = 0
    /\ Returned = <<FALSE, 0>>

\* C5: every ep >= 2^32 gives (false, 0); every ep <= 2^32 - 1 passes the epoch
\* guard, and the u32 epoch handed to every verify_one is ep itself.
C5_EpochFit ==
    Done =>
        /\ ~EpochOk => Returned = <<FALSE, 0>>
        /\ (EpochOk /\ PairLengthsOk /\ ParamsOk) =>
              /\ ret.line = 94
              /\ \A i \in 1..Len(ret.calls) :
                    ret.calls[i].epoch \o Zeros(4) = batch.statement.ep

\* ep = 2^32 - 1 is accepted and handed on unchanged
C5_Witness ==
    /\ Done /\ K >= 1 /\ GuardsPass
    /\ batch.statement.ep = <<255, 255, 255, 255, 0, 0, 0, 0>>
    /\ ret.calls[1].epoch = <<255, 255, 255, 255>>

FieldModulusTop == FIELD_MODULUS \div Pow2(24)

FieldModulusLow == FIELD_MODULUS % Pow2(24)

\* The j-th 4-byte little-endian limb of the buffer is >= p
LimbAtLeastP(bytes, j) ==
    \/ bytes[4 * j] > FieldModulusTop
    \/ /\ bytes[4 * j] = FieldModulusTop
       /\ bytes[4 * j - 3] + 256 * bytes[4 * j - 2] + 65536 * bytes[4 * j - 1]
            >= FieldModulusLow

NonCanonical(bytes) == \E j \in 1..(Len(bytes) \div 4) : LimbAtLeastP(bytes, j)

HasNonCanonicalLimb(sig, pk) ==
    \/ NonCanonical(sig.randomness)
    \/ \E j \in 1..Len(sig.wots_chain_ends) : NonCanonical(sig.wots_chain_ends[j])
    \/ \E j \in 1..Len(sig.auth_path) : NonCanonical(sig.auth_path[j])
    \/ NonCanonical(pk.root)
    \/ NonCanonical(pk.parameter)

\* C6: verify_one returns false whenever a limb of the randomness, of a chain
\* end, of an auth-path node, of the root or of the parameter is >= p.
C6_NonCanonicalRejected ==
    Done => \A i \in 1..Len(ret.calls) :
                HasNonCanonicalLimb(Sig(i), Pk(i)) => ~ret.calls[i].ok

\* C7 as the specification states it: a message of another length than 32
\* bytes gives (false, 0) for every k.
C7_BadDigestZeroCount ==
    (Done /\ Len(batch.statement.m) # DIGEST_LEN) => Returned = <<FALSE, 0>>

\* C7: the length of the message is no batch guard.  With a message of another
\* length than 32 bytes every verify_one fails, so a batch that passes the three
\* guards returns (false, k) for k >= 1 and (true, 0) for k = 0; a batch that
\* fails a guard returns (false, 0).
C7_BadDigestCountsK ==
    (Done /\ Len(batch.statement.m) # DIGEST_LEN) =>
        Returned = IF GuardsPass THEN <<K = 0, K>> ELSE <<FALSE, 0>>

C7_Witness ==
    /\ Done /\ GuardsPass /\ K = MaxK
    /\ Len(batch.statement.m) = DIGEST_LEN - 1
    /\ Returned = <<FALSE, MaxK>>
    /\ \A i \in 1..MaxK : ret.calls[i].line = 166

\* C8: verify_one returns false whenever sig.leaf_index differs from the epoch,
\* so a batch that passes the guards and holds such a signature returns (false, k).
C8_LeafIndexMismatch ==
    Done =>
        /\ \A i \in 1..Len(ret.calls) :
              Sig(i).leaf_index # ret.calls[i].epoch => ~ret.calls[i].ok
        /\ (GuardsPass /\ \E i \in 1..K : Sig(i).leaf_index \o Zeros(4) # batch.statement.ep)
              => Returned = <<FALSE, K>>

\* Otherwise valid pairs, one of them with another leaf index
C8_Witness ==
    /\ Done /\ GuardsPass /\ K = MaxK
    /\ batch.statement.m = material.m
    /\ \E i \in 1..K :
          /\ Sig(i).leaf_index # SubSeq(batch.statement.ep, 1, 4)
          /\ [Sig(i) EXCEPT !.leaf_index = SubSeq(batch.statement.ep, 1, 4)]
                = material.keys[i].sig
          /\ Pk(i) = material.keys[i].pk
          /\ \A j \in (1..K) \ {i} : ret.calls[j].ok
    /\ Returned = <<FALSE, MaxK>>

\* The first hash evaluation of verify_one: targetsim_codeword at this line
FirstHashLine == 169

WrongShape(sig, pk) ==
    \/ Len(sig.wots_chain_ends) # 155
    \/ Len(sig.auth_path) # 18
    \/ Len(sig.randomness) # 24
    \/ Len(pk.parameter) # 20
    \/ Len(pk.root) # 28
    \/ \E j \in 1..Len(sig.wots_chain_ends) : Len(sig.wots_chain_ends[j]) # 28
    \/ \E j \in 1..Len(sig.auth_path) : Len(sig.auth_path[j]) # 28

\* C9: verify_one returns false, before any hash is evaluated, whenever the
\* signature or the key has the wrong shape.
C9_WrongShape ==
    Done => \A i \in 1..Len(ret.calls) :
                WrongShape(Sig(i), Pk(i)) =>
                    ~ret.calls[i].ok /\ ret.calls[i].line < FirstHashLine

\* A chain end of 27 bytes among 155, everything else well-formed
C9_Witness ==
    /\ Done /\ GuardsPass /\ K = 1
    /\ Len(Sig(1).wots_chain_ends) = 155
    /\ \E j \in 1..155 : Len(Sig(1).wots_chain_ends[j]) = 27
    /\ ret.calls[1].line = 158
    /\ Returned = <<FALSE, 1>>

\* The pairs the reference signer produced
SignerPairs == {material.keys[n] : n \in 1..Len(material.keys)}

\* C10: for the epochs 0 .. 2^18 - 1, every 32-byte message and every pair
\* (pk, sig) of the reference signer, verify_one(sig, pk, m, e) is true.
C10_Completeness ==
    Done => \A i \in 1..Len(ret.calls) :
                (/\ [sig |-> Sig(i), pk |-> Pk(i)] \in SignerPairs
                 /\ batch.statement.m = material.m
                 /\ ret.calls[i].epoch = U32(material.e)) => ret.calls[i].ok

\* The last epoch of the tree, 2^18 - 1
C10_Witness ==
    /\ Done /\ K = MaxK /\ material.e = 262143
    /\ \A i \in 1..K : [sig |-> Sig(i), pk |-> Pk(i)] \in SignerPairs
    /\ batch.statement.m = material.m
    /\ Len(ret.calls) = MaxK
    /\ \A i \in 1..K : ret.calls[i].epoch = U32(material.e) /\ ret.calls[i].line = 197
    /\ Returned = <<TRUE, MaxK>>

\* The buffers a and b differ in exactly one bit
OneBitApart(a, b) ==
    /\ Len(a) = Len(b)
    /\ \E n \in 1..Len(a) :
          /\ \E j \in 0..7 : a[n] = FlipBit(b[n], j)
          /\ \A o \in (1..Len(a)) \ {n} : a[o] = b[o]

\* The 4-byte limb of the buffer that holds byte n
LimbOf(bytes, n) ==
    SubSeq(bytes, FE_BYTES * ((n - 1) \div FE_BYTES) + 1,
                  FE_BYTES * ((n - 1) \div FE_BYTES) + FE_BYTES)

\* Every one-bit flip of the buffer changes the field element its limb decodes to
EveryFlipChangesElement(bytes) ==
    \A n \in 1..Len(bytes) : \A j \in 0..7 :
        from_u32(LimbOf([bytes EXCEPT ![n] = FlipBit(@, j)], n)) # from_u32(LimbOf(bytes, n))

\* The batch with the root of key i replaced by the root the signer exported
RootRestored(i) ==
    [batch EXCEPT !.statement.public_keys[i].root = material.keys[i].pk.root]

\* C11: in a batch that verify_batch accepts with (true, k), k >= 1, every
\* one-bit flip of a root changes the decoded root, and the batch with one bit
\* of one root flipped is rejected with (false, k) by the final comparison.
C11_FlippedRoot ==
    Done =>
        /\ (ret.all_valid /\ K >= 1) =>
              \A i \in 1..K : EveryFlipChangesElement(Pk(i).root)
        /\ (GuardsPass /\ K >= 1) =>
              \A i \in 1..K :
                  (/\ OneBitApart(Pk(i).root, material.keys[i].pk.root)
                   /\ Pair(verify_batch(RootRestored(i))) = <<TRUE, K>>)
                      => Returned = <<FALSE, K>> /\ ret.calls[i].line = 197

\* The top bit of the last limb of the root is flipped
C11_Witness ==
    /\ Done /\ GuardsPass /\ K = 1
    /\ OneBitApart(Pk(1).root, material.keys[1].pk.root)
    /\ Pk(1).root[28] = FlipBit(material.keys[1].pk.root[28], 7)
    /\ Sig(1) = material.keys[1].sig
    /\ ret.calls[1].line = 197
    /\ Returned = <<FALSE, 1>>

\* The list a is the list b with one bit of one element flipped
OneElementFlipped(a, b) ==
    /\ Len(a) = Len(b)
    /\ \E n \in 1..Len(a) :
          /\ OneBitApart(a[n], b[n])
          /\ \A o \in (1..Len(a)) \ {n} : a[o] = b[o]

\* The pair is `orig` with one bit flipped in the parameter, in one chain end
\* or in one node of the auth path
ElementFlipped(sig, pk, orig) ==
    /\ sig.leaf_index = orig.sig.leaf_index
    /\ sig.randomness = orig.sig.randomness
    /\ pk.root = orig.pk.root
    /\ \/ /\ OneBitApart(pk.parameter, orig.pk.parameter)
          /\ sig.wots_chain_ends = orig.sig.wots_chain_ends
          /\ sig.auth_path = orig.sig.auth_path
       \/ /\ pk.parameter = orig.pk.parameter
          /\ OneElementFlipped(sig.wots_chain_ends, orig.sig.wots_chain_ends)
          /\ sig.auth_path = orig.sig.auth_path
       \/ /\ pk.parameter = orig.pk.parameter
          /\ sig.wots_chain_ends = orig.sig.wots_chain_ends
          /\ OneElementFlipped(sig.auth_path, orig.sig.auth_path)

\* The batch with pair i replaced by the pair the signer exported
PairRestored(i) ==
    [batch EXCEPT !.statement.public_keys[i] = material.keys[i].pk,
                  !.witness.signatures[i] = material.keys[i].sig]

\* C12: a batch that differs in one bit of a parameter, of a chain end or of an
\* auth-path node from a batch that verify_batch accepts with (true, k) is
\* rejected with (false, k); every one-bit flip of an accepted parameter changes
\* the decoded element.
C12_MonotoneFailure ==
    Done =>
        /\ (ret.all_valid /\ K >= 1) =>
              \A i \in 1..K : EveryFlipChangesElement(Pk(i).parameter)
        /\ (GuardsPass /\ K >= 1) =>
              \A i \in 1..K :
                  (/\ ElementFlipped(Sig(i), Pk(i), material.keys[i])
                   /\ Pair(verify_batch(PairRestored(i))) = <<TRUE, K>>)
                      => Returned = <<FALSE, K>> /\ ~ret.calls[i].ok

\* The top bit of the last byte of the last chain end is flipped
C12_Witness ==
    /\ Done /\ GuardsPass /\ K = 1
    /\ ElementFlipped(Sig(1), Pk(1), material.keys[1])
    /\ Sig(1).wots_chain_ends[155][28] = FlipBit(material.keys[1].sig.wots_chain_ends[155][28], 7)
    /\ ret.calls[1].line = 197
    /\ Returned = <<FALSE, 1>>

\* root bytes || parameter bytes of the keys n, n + 1, ... in index order
RECURSIVE KeyBytesFrom(_, _)
KeyBytesFrom(public_keys, n) ==
    IF n > Len(public_keys) THEN <<>>
    ELSE public_keys[n].root \o public_keys[n].parameter \o KeyBytesFrom(public_keys, n + 1)

\* k (4 LE) || ep (8 LE) || |m| (4 LE) || m || |public_keys| (4 LE) || keys
CommitmentPreimage(stmt) ==
    IntToBytes(stmt.k, 4) \o stmt.ep \o IntToBytes(Len(stmt.m), 4) \o stmt.m
        \o IntToBytes(Len(stmt.public_keys), 4) \o KeyBytesFrom(stmt.public_keys, 1)

Committed == pc \in {"reveal_words", "done"}

\* C13: the commitment is the hash of k || ep || |m| || m || |public_keys| ||
\* root and parameter of every key in index order, and it is the same for a
\* batch with the same statement and other params and another witness.
C13_CommitmentPreimage ==
    Committed =>
        /\ h = sha256(CommitmentPreimage(batch.statement))
        /\ Len(h) = DIGEST_LEN
        /\ h = statement_commitment(
                   [NoBatch EXCEPT !.statement = batch.statement].statement)

\* A statement whose key list is longer than k
C13_Witness ==
    /\ Done /\ K >= 1 /\ Len(batch.statement.public_keys) = K + 1
    /\ Len(CommitmentPreimage(batch.statement)) = 20 + DIGEST_LEN + 48 * (K + 1)
    /\ h = sha256(CommitmentPreimage(batch.statement))

\* The n-th call of reveal_u32 of a run, n = 1..10
ExpectedReveal(n) ==
    [index |-> n - 1,
     word |-> CASE n = 1 -> IntToBytes(IF ret.all_valid THEN 1 ELSE 0, 4)
                [] n = 2 -> IntToBytes(ret.count, 4)
                [] OTHER -> SubSeq(statement_commitment(batch.statement),
                                   4 * (n - 3) + 1, 4 * (n - 3) + 4)]

\* The number of reveals made when the program is at pc
RevealsAt ==
    CASE pc \in {"host", "read", "verify", "reveal_valid"} -> {0}
      [] pc = "reveal_count" -> {1}
      [] pc = "commit" -> {2}
      [] pc = "reveal_words" -> 2..9
      [] pc = "done" -> {10}

\* C14: the guest reveals index 0 = all_valid, index 1 = count and indices
\* 2..9 = the eight words of the statement commitment, in this order and each
\* once, whatever verify_batch returned.
C14_JournalOrder ==
    /\ Len(journal) \in RevealsAt
    /\ \A n \in 1..Len(journal) : journal[n] = ExpectedReveal(n)

\* A batch that fails a guard: the commitment is revealed all the same
C14_Witness ==
    /\ Done /\ ~ParamsOk /\ Returned = <<FALSE, 0>>
    /\ Len(journal) = 10
    /\ journal[1] = [index |-> 0, word |-> <<0, 0, 0, 0>>]
    /\ journal[2] = [index |-> 1, word |-> <<0, 0, 0, 0>>]
    /\ journal[10] = [index |-> 9, word |-> SubSeq(h, 29, 32)]
    /\ h = statement_commitment(batch.statement)

\* A call of fn has been applied
Applied(fn) == calc.fn = fn /\ calc.applied

\* C15: the codeword of targetsim_codeword has 155 elements, each 0 or 1, so
\* that no chunk is >= BASE.
C15_CodewordShape ==
    Applied("targetsim_codeword") =>
        /\ Len(calc.out) = 155
        /\ \A i \in 1..Len(calc.out) : calc.out[i] \in {0, 1}
        /\ ~(\E i \in 1..Len(calc.out) : calc.out[i] >= BASE)

\* A codeword with both values, for the epoch 2^32 - 1
C15_Witness ==
    /\ Applied("targetsim_codeword")
    /\ calc.in.epoch = <<255, 255, 255, 255>>
    /\ calc.in.message = BenchDigest
    /\ Len(calc.out) = 155
    /\ \E i, j \in 1..155 : calc.out[i] = 0 /\ calc.out[j] = 1

\* The i-th call of verify_one panics: the places it reaches are those up to
\* the line at which it returned; a chunk of the codeword is any u8.
CallAborts(i) ==
    /\ ret.calls[i].line >= FirstHashLine
    /\ \/ poseidon_message_hash_aborts
       \/ /\ ret.calls[i].line > 171
          /\ \E steps_seen \in Byte : chain_step_aborts(steps_seen)
       \/ /\ ret.calls[i].line = 197
          /\ hash_tree_verify_aborts(Min(NUM_CHAINS, Len(Sig(i).wots_chain_ends)),
                                     Len(Sig(i).auth_path))

\* C16: no call of verify_one panics, count stays a u32, and every word that
\* the guest reveals is made of the four bytes of a chunk of the commitment.
C16_NoPanic ==
    Done =>
        /\ \A i \in 1..Len(ret.calls) : ~CallAborts(i)
        /\ ret.count = Len(ret.calls) /\ ret.count <= Len(batch.witness.signatures)
        /\ \A n \in 1..Len(journal) : Len(journal[n].word) = 4

\* A call that goes through every hash, next to one that stops at a length check
C16_Witness ==
    /\ Done /\ K = MaxK /\ GuardsPass
    /\ ret.calls[MaxK].line = 197 /\ ~CallAborts(MaxK)
    /\ ret.calls[1].line = 127
    /\ Len(journal) = 10

\* 2 * x mod P
TwiceModP(x) == IF x >= P - x THEN x - (P - x) ELSE x + x

\* (a + b) mod P for a, b < P
SumModP(a, b) == IF a >= P - b THEN a - (P - b) ELSE a + b

\* (a * b) mod P for a, b < P, by doubling
RECURSIVE ProductModP(_, _)
ProductModP(a, b) ==
    IF b = 0 THEN 0
    ELSE SumModP(TwiceModP(ProductModP(a, b \div 2)), IF b % 2 = 1 THEN a ELSE 0)

\* x mod P for x < 2^31
ReducedOnce(x) == IF x >= P THEN x - P ELSE x

\* u32 mod P for a u32 given by its bytes: the low 31 bits plus 2^31 - P for
\* the top bit
WordModP(w) ==
    IF w[4] >= 128
    THEN SumModP(ReducedOnce(w[1] + 256 * w[2] + 65536 * w[3] + 16777216 * (w[4] - 128)),
                 16777215)
    ELSE ReducedOnce(w[1] + 256 * w[2] + 65536 * w[3] + 16777216 * w[4])

\* C17: new(x) stores x mod P; add, sub, mul and neg of stored values < P give
\* the stored value of (a+b), (a-b), (a*b), (-a) mod P, which is < P, and no
\* subtraction leaves the u32 range.
C17_FieldArithmetic ==
    /\ Applied("new") => calc.out = WordModP(calc.in) /\ calc.out < P
    /\ Applied("add") => calc.out = SumModP(calc.in[1], calc.in[2]) /\ calc.out < P
    /\ Applied("sub") =>
          /\ SumModP(calc.out, calc.in[2]) = calc.in[1]
          /\ calc.out \in 0..(P - 1)
          /\ ~kb_sub_underflows(calc.in[1], calc.in[2])
    /\ Applied("mul") => calc.out = ProductModP(calc.in[1], calc.in[2]) /\ calc.out < P
    /\ Applied("neg") =>
          /\ SumModP(calc.out, calc.in) = 0
          /\ calc.out \in 0..(P - 1)
          /\ ~kb_neg_underflows(calc.in)

\* (P - 1) + 2 = 1
C17_Witness ==
    /\ Applied("add")
    /\ calc.in = <<P - 1, 2>>
    /\ calc.out = 1

\* The packed integer of a tweak as a u128, low byte first
PackedInteger(tweak) ==
    CASE tweak.kind = "Tree" ->
           <<1>> \o tweak.pos_in_level \o <<tweak.level>> \o Zeros(10)
      [] tweak.kind = "Chain" ->
           <<0, tweak.pos_in_chain, tweak.chain_index>> \o tweak.epoch \o Zeros(9)
      [] tweak.kind = "Message" ->
           <<2>> \o tweak.epoch \o Zeros(11)

\* fe[1] + p * fe[2] as a u128
Recombined(fe) ==
    AddWords(IntToBytes(fe[1], 4) \o Zeros(12),
             MulWords(IntToBytes(fe[2], 4), IntToBytes(FIELD_MODULUS, 4)) \o Zeros(8),
             16).w

\* C18: the two base-p digits of a tweak recombine to its packed integer
\* (nothing is left after two divisions by p), each digit is canonical, and
\* two distinct tweaks, of one variant or of two, get distinct 2-element
\* arrays.
C18_TweakEncodingLossless ==
    Applied("tweaks") =>
        /\ \A i \in 1..2 :
              /\ Len(calc.out[i]) = TWEAK_LEN_FE
              /\ \A j \in 1..TWEAK_LEN_FE : calc.out[i][j] \in 0..(FIELD_MODULUS - 1)
              /\ Recombined(calc.out[i]) = PackedInteger(calc.in[i])
        /\ calc.in[1] # calc.in[2] => calc.out[1] # calc.out[2]

\* The greatest chain tweak against the greatest tree tweak: both need the
\* second digit
C18_Witness ==
    /\ Applied("tweaks")
    /\ calc.in[1] = chain(<<255, 255, 255, 255>>, 255, 255)
    /\ calc.in[2] = tree(255, <<255, 255, 255, 255>>)
    /\ calc.out[1][2] # 0
    /\ calc.out[2][2] # 0
    /\ calc.out[1] # calc.out[2]

\* Bytes of the accumulator's reference value: the chunks rounded up to bytes
AccBytes == (NUM_CHUNKS_MESSAGE + 7) \div 8

\* acc * p + h_i for i = i..Len(fe), in 160-bit byte arithmetic
RECURSIVE HornerAcc(_, _, _)
HornerAcc(fe, i, acc) ==
    IF i > Len(fe) THEN acc
    ELSE HornerAcc(fe, i + 1,
                   AddWords(SubSeq(MulWords(acc, IntToBytes(FIELD_MODULUS, 4)), 1, AccBytes),
                            IntToBytes(fe[i], AccBytes), AccBytes).w)

\* The chunks agree with the bits of acc, and acc has no bit above them
BitsOfAcc(chunks, acc) ==
    /\ Len(chunks) = NUM_CHUNKS_MESSAGE
    /\ \A j \in 0..(NUM_CHUNKS_MESSAGE - 1) : chunks[j + 1] = BitOf(acc, j)
    /\ \A j \in NUM_CHUNKS_MESSAGE..(8 * AccBytes - 1) : BitOf(acc, j) = 0

\* C19: decode_to_chunks of 5 canonical field elements is the 155 low bits of
\* acc = h0*p^4 + h1*p^3 + h2*p^2 + h3*p + h4, low bit first, and acc has no
\* higher bit.
C19_ChunksAreBitsOfAcc ==
    Applied("decode_to_chunks") => BitsOfAcc(calc.out, HornerAcc(calc.in, 1, Zeros(AccBytes)))

\* The greatest input, acc = p^5 - 1: the top chunk is set, the lowest is not
C19_Witness ==
    /\ Applied("decode_to_chunks")
    /\ \A i \in 1..MSG_HASH_LEN_FE : calc.in[i] = FIELD_MODULUS - 1
    /\ calc.out[NUM_CHUNKS_MESSAGE] = 1
    /\ calc.out[1] = 0

\* The represented integer is 0: every limb is 0
RepresentsZero(limbs) == \A i \in 1..Len(limbs) : IsZeroWord(limbs[i])

\* No most-significant zero limb
Normalized(limbs) == Len(limbs) = 0 \/ ~IsZeroWord(limbs[Len(limbs)])

\* C20: after zero, from_u64 or from_le_bytes and after any calls of mul_small,
\* add_small and div_small, the limb vector has no most-significant zero limb,
\* and is_zero() holds exactly when the represented integer is 0.
C20_Normalized ==
    Applied("SmallBigUint") =>
        /\ Normalized(calc.out.limbs)
        /\ is_zero(calc.out.limbs) <=> RepresentsZero(calc.out.limbs)

\* A division that emptied the top limb of a value that stays nonzero
C20_Witness ==
    /\ Applied("SmallBigUint")
    /\ calc.out.last = "div_small"
    /\ Len(calc.out.limbs) < calc.out.was
    /\ ~is_zero(calc.out.limbs)

\* The bytes of a limb vector, least significant first
LimbBytes(limbs) ==
    Vec([i \in 1..(4 * Len(limbs)) |-> limbs[((i - 1) \div 4) + 1][((i - 1) % 4) + 1]])

\* A byte word extended with zero bytes to n bytes
Padded(w, n) == w \o Zeros(n - Len(w))

\* new = old * k, as integers
IsProduct(new, old, k) == Padded(LimbBytes(new), 4 * Len(old) + 4) = MulWords(LimbBytes(old), k)

\* new = old + k, as integers
IsSum(new, old, k) ==
    Padded(LimbBytes(new), 4 * Len(old) + 4)
        = AddWords(Padded(LimbBytes(old), 4 * Len(old) + 4), Padded(k, 4 * Len(old) + 4),
                   4 * Len(old) + 4).w

\* old = new * d + rem with 0 <= rem < d: new = floor(old / d), rem = old mod d
IsQuotient(new, old, d, rem) ==
    /\ rem \in 0..(d - 1)
    /\ Len(new) <= Len(old)
    /\ AddWords(MulWords(LimbBytes(new), IntToBytes(d, 4)),
                IntToBytes(rem, 4 * Len(new) + 4), 4 * Len(new) + 4)
          = [w |-> Padded(LimbBytes(old), 4 * Len(new) + 4), c |-> 0]

\* C21: mul_small(k) leaves V*k, add_small(k) leaves V+k, div_small(d) for
\* d # 0 leaves floor(V/d) and returns V mod d, which is below d, and
\* div_small(0) returns 0 and leaves V unchanged.
C21_ExactArithmetic ==
    (calc.fn = "SmallBigUint" /\ calc.applied /\ calc.out.ops >= 1) =>
        /\ calc.out.last = "mul_small" =>
              IsProduct(calc.out.limbs, calc.out.prev, calc.out.arg)
        /\ calc.out.last = "add_small" =>
              IsSum(calc.out.limbs, calc.out.prev, calc.out.arg)
        /\ (calc.out.last = "div_small" /\ calc.out.arg # 0) =>
              IsQuotient(calc.out.limbs, calc.out.prev, calc.out.arg, calc.out.rem)
        /\ (calc.out.last = "div_small" /\ calc.out.arg = 0) =>
              calc.out.rem = 0 /\ calc.out.limbs = calc.out.prev

\* A division of a value of two or more limbs by p with a nonzero remainder
C21_Witness ==
    /\ calc.fn = "SmallBigUint" /\ calc.applied
    /\ calc.out.last = "div_small"
    /\ calc.out.arg = FIELD_MODULUS
    /\ Len(calc.out.prev) >= 2
    /\ calc.out.rem # 0
    /\ ~is_zero(calc.out.limbs)

\* Bytes of the reference value of 9 base-p digits: p^9 is below 2^280
DigitBytes == 4 * MSG_LEN_FE

\* fe[1] + p * (fe[2] + p * (... fe[i])) over DigitBytes bytes, from digit i down
RECURSIVE DigitsValue(_, _, _)
DigitsValue(fe, i, acc) ==
    IF ~Evaluated(acc) \/ i = 0 THEN acc
    ELSE DigitsValue(fe, i - 1,
                     AddWords(SubSeq(MulWords(acc, IntToBytes(FIELD_MODULUS, 4)),
                                     1, DigitBytes),
                              IntToBytes(fe[i], DigitBytes), DigitBytes).w)

\* C22: the 9 digits of encode_message are canonical and recombine, least
\* significant first, to the little-endian integer of the 32-byte digest
\* (nothing is left after 9 divisions), and two distinct digests get distinct
\* arrays.
C22_EncodeMessageLossless ==
    Applied("encode_message") =>
        /\ \A i \in 1..2 :
              /\ Len(calc.out[i]) = MSG_LEN_FE
              /\ \A j \in 1..MSG_LEN_FE : calc.out[i][j] \in 0..(FIELD_MODULUS - 1)
              /\ DigitsValue(calc.out[i], MSG_LEN_FE, Zeros(DigitBytes))
                    = Padded(calc.in[i], DigitBytes)
        /\ calc.in[1] # calc.in[2] => calc.out[1] # calc.out[2]

\* 2^256 - 1 against 2^255 - 1: both need the ninth digit, and differ
C22_Witness ==
    /\ Applied("encode_message")
    /\ \A b \in 1..DIGEST_LEN : calc.in[1][b] = 255
    /\ calc.in[2] = [calc.in[1] EXCEPT ![DIGEST_LEN] = 127]
    /\ calc.out[1][MSG_LEN_FE] # 0
    /\ calc.out[2][MSG_LEN_FE] # 0
    /\ calc.out[1] # calc.out[2]

\* The endpoint of chain i (from 0): the tip for a codeword entry 1, one
\* single-block hash of the tip under Chain(epoch, i, 1) for an entry 0
Endpoint(c, i) ==
    IF c.codeword[i + 1] = 1 THEN c.chain_hashes[i + 1]
    ELSE poseidon_apply(c.parameter, chain(c.epoch, i, 1), <<c.chain_hashes[i + 1]>>)

\* C23: for every chain index i in 0..154 the endpoint is the decoded tip
\* unchanged when codeword[i] = 1 and one single-block tweakable hash of the
\* tip under Chain(epoch, i, 1) when codeword[i] = 0; the index reaches the
\* tweak unchanged and the endpoints are collected in index order.
C23_ChainEndpoints ==
    Applied("chain_ends") =>
        /\ Len(calc.out) = NUM_CHAINS
        /\ \A i \in 0..(NUM_CHAINS - 1) : calc.out[i + 1] = Endpoint(calc.in, i)

\* An alternating codeword: the last chain, index 154, is hashed once and the
\* one before it is left alone
C23_Witness ==
    /\ Applied("chain_ends")
    /\ calc.in.codeword[NUM_CHAINS] = 1 /\ calc.in.codeword[NUM_CHAINS - 1] = 0
    /\ calc.out[NUM_CHAINS] = calc.in.chain_hashes[NUM_CHAINS]
    /\ calc.out[NUM_CHAINS - 1] # calc.in.chain_hashes[NUM_CHAINS - 1]

\* C24: hash_tree_verify returns true exactly when the path has 18 nodes and
\* the node 18 levels above the leaf hash equals the root, where the leaf is
\* hashed under Tree(0, position) and level l + 1 under
\* Tree(l + 1, position >> (l + 1)), the running node on the left when bit l of
\* position is 0.
C24_TreeVerify ==
    Applied("hash_tree_verify") =>
        calc.out = (/\ Len(calc.in.path) = TREE_HEIGHT
                    /\ PathNode(calc.in.parameter, calc.in.position, calc.in.leaf,
                                calc.in.path, TREE_HEIGHT) = calc.in.root)

\* The last leaf of the tree, position 2^18 - 1, accepted: the running node is
\* the right child at every level
C24_Witness ==
    /\ Applied("hash_tree_verify")
    /\ calc.in.position = <<255, 255, 3, 0>>
    /\ calc.out = TRUE

\* ceil(len / rate)
Slices(len, rate) == (len + rate - 1) \div rate

\* C25: on every capacity block and input the OpenVM poseidon_sponge24 and the
\* RISC Zero poseidon_sponge give the same output, and each calls the
\* permutation ceil(len / rate) times while absorbing: not at all for an empty
\* input.
C25_SpongesAgree ==
    Applied("sponge") =>
        /\ calc.out.openvm = calc.out.risc0
        /\ Len(calc.out.openvm) = calc.in.OUT_LEN
        /\ calc.out.openvm_permutes
              = Slices(Len(calc.in.input), 24 - Len(calc.in.capacity_value))
        /\ calc.out.risc0_permutes = calc.out.openvm_permutes
        /\ Len(calc.in.input) = 0 => calc.out.openvm_permutes = 0

\* An input of two full slices and one lane more at rate 15: three calls
C25_Witness ==
    /\ Applied("sponge")
    /\ Len(calc.in.capacity_value) = POSEIDON_CAPACITY_LEN
    /\ Len(calc.in.input) = 31
    /\ calc.out.openvm_permutes = 3 /\ calc.out.risc0_permutes = 3
    /\ calc.out.openvm = calc.out.risc0

\* C26: the prototype's hash_tree_verify returns false, without panicking, for
\* every co_path longer than 32 entries and for every position >= 2^depth, and
\* returns true when the root is the node reconstructed from leaf and co_path.
C26_PrototypeTreeVerify ==
    Applied("risc0_hash_tree_verify") =>
        /\ ~calc.out.panic
        /\ Len(calc.in.co_path) > 32 => ~calc.out.value
        /\ (Len(calc.in.co_path) < 32
              /\ ShiftRight(calc.in.position, Len(calc.in.co_path)) # Zeros(4))
              => ~calc.out.value
        /\ (Len(calc.in.co_path) <= 32 /\ calc.out.value) =>
              calc.in.root = PathNode(calc.in.parameter, calc.in.position, calc.in.leaf,
                                      TreePath(Len(calc.in.co_path)),
                                      Len(calc.in.co_path))

\* The same for co-paths of fewer than 64 entries, where `1 << depth` cannot
\* overflow; depth 0 accepts exactly the hash of the leaf under Tree(0, 0)
PrototypeTreeVerifyBelow64 ==
    (Applied("risc0_hash_tree_verify") /\ Len(calc.in.co_path) < 64) =>
        /\ ~calc.out.panic
        /\ Len(calc.in.co_path) > 32 => ~calc.out.value
        /\ (Len(calc.in.co_path) < 32
              /\ ShiftRight(calc.in.position, Len(calc.in.co_path)) # Zeros(4))
              => ~calc.out.value
        /\ (Len(calc.in.co_path) <= 32
              /\ ShiftRight(calc.in.position, Len(calc.in.co_path)) = Zeros(4)) =>
              calc.out.value
                  = (calc.in.root
                       = PathNode(calc.in.parameter, calc.in.position, calc.in.leaf,
                                  TreePath(Len(calc.in.co_path)), Len(calc.in.co_path)))
        /\ (Len(calc.in.co_path) = 0 /\ calc.in.position = Zeros(4)) =>
              calc.out.value
                  = (calc.in.root = poseidon_apply(calc.in.parameter, tree(0, Zeros(4)),
                                                   calc.in.leaf))

\* A co-path of 64 entries in a build with overflow checks
C26_PanicReached ==
    /\ Applied("risc0_hash_tree_verify")
    /\ Len(calc.in.co_path) = 64
    /\ calc.out.panic

\* C27: verify_one returns false for every epoch >= 2^18: in every accepting
\* run the position of the root-level tweak, epoch >> 18, is 0.
C27_LeafIndexInTree ==
    (Applied("verify_one") /\ calc.out.ok) =>
        ShiftRight(calc.in.epoch, TREE_HEIGHT) = Zeros(4)

\* verify_one accepts at epoch 2^18: the root-level tweak is Tree(18, 1)
C27_OutsideAccepted ==
    /\ Applied("verify_one")
    /\ calc.in.epoch = <<0, 0, 4, 0>>
    /\ calc.in.sig.leaf_index = calc.in.epoch
    /\ calc.out.ok /\ calc.out.line = 197
    /\ ShiftRight(calc.in.epoch, TREE_HEIGHT) = <<1, 0, 0, 0>>

\* What verify_one does check about the leaf index: it equals the epoch
VerifyOneLeafIndexIsEpoch ==
    (Applied("verify_one") /\ calc.out.ok) => calc.in.sig.leaf_index = calc.in.epoch

\* C28: two statements that differ in k, ep, m, the number of public keys or
\* any root or parameter byte never have the same pre-image.
C28_PreimageInjective ==
    (Applied("statement_commitment") /\ calc.in[1] # calc.in[2]) =>
        calc.out.buf[1] # calc.out.buf[2]

\* Every key has a 28-byte root and a 20-byte parameter
KeyLengthsFixed(stmt) ==
    \A i \in 1..Len(stmt.public_keys) :
        /\ Len(stmt.public_keys[i].root) = HASH_LEN_FE * FE_BYTES
        /\ Len(stmt.public_keys[i].parameter) = PARAMETER_LEN_FE * FE_BYTES

\* Among statements whose keys have the lengths verify_one requires, the
\* pre-image is an injective encoding
PreimageInjectiveOnFixedLengths ==
    (Applied("statement_commitment") /\ calc.in[1] # calc.in[2]
       /\ KeyLengthsFixed(calc.in[1]) /\ KeyLengthsFixed(calc.in[2])) =>
        calc.out.buf[1] # calc.out.buf[2]

\* A 28-byte root with a 20-byte parameter against the same 48 bytes split
\* after byte 29: two statements, one pre-image, one commitment
C28_Collision ==
    /\ Applied("statement_commitment")
    /\ calc.in[1] # calc.in[2]
    /\ Len(calc.in[1].public_keys) = 1 /\ Len(calc.in[2].public_keys) = 1
    /\ Len(calc.in[1].public_keys[1].root) = 28
    /\ Len(calc.in[2].public_keys[1].root) = 29
    /\ calc.out.buf[1] = calc.out.buf[2]
    /\ calc.out.h[1] = calc.out.h[2]

(***************************************************************************)
(* C29: an accepted, non-empty batch is well-formed.                       *)
(***************************************************************************)
NodeLen == HASH_LEN_FE * FE_BYTES

\* Signature i and its key have the lengths verify_one requires and the
\* signature is bound to the statement's epoch
WellFormedPair(i) ==
    /\ Sig(i).leaf_index = SubSeq(batch.statement.ep, 1, 4)
    /\ Len(Sig(i).wots_chain_ends) = NUM_CHAINS
    /\ \A j \in 1..Len(Sig(i).wots_chain_ends) : Len(Sig(i).wots_chain_ends[j]) = NodeLen
    /\ Len(Sig(i).auth_path) = TREE_HEIGHT
    /\ \A j \in 1..Len(Sig(i).auth_path) : Len(Sig(i).auth_path[j]) = NodeLen
    /\ Len(Sig(i).randomness) = RANDOMNESS_LEN_FE * FE_BYTES
    /\ Len(Pk(i).root) = NodeLen
    /\ Len(Pk(i).parameter) = PARAMETER_LEN_FE * FE_BYTES

\* C29: whenever verify_batch returns all_valid = true with count >= 1, then
\* count = k = |public_keys| = |signatures|, ep < 2^32, |m| = 32, and every
\* signature has leaf_index = ep, 155 chain ends and 18 path nodes of 28 bytes
\* each, 24 bytes of randomness, and a key with a 28-byte root and a 20-byte
\* parameter.
C29_AcceptedBatchWellFormed ==
    (Done /\ ret.all_valid /\ ret.count >= 1) =>
        /\ ret.count = K
        /\ PairLengthsOk
        /\ EpochOk
        /\ Len(batch.statement.m) = DIGEST_LEN
        /\ \A i \in 1..K : WellFormedPair(i)

\* A batch of MaxK pairs accepted as a whole
C29_Witness ==
    /\ Done /\ ret.all_valid /\ ret.count = MaxK
    /\ \A i \in 1..MaxK : WellFormedPair(i)

(***************************************************************************)
(* C30: the message encoding of the RISC Zero core.                        *)
(***************************************************************************)
\* a < b for two little-endian words of one length
WordLess(a, b) ==
    \E i \in 1..Len(a) : a[i] < b[i] /\ \A j \in (i + 1)..Len(a) : a[j] = b[j]

FirstHalf(message) == SubSeq(message, 1, 16)

SecondHalf(message) == SubSeq(message, 17, 32)

\* C30: distinct 32-byte messages always map to distinct arrays of MSG_LEN_FE
\* elements (lanes 0..4 represent the first 16 bytes, lanes 5..8 the last 16),
\* so that two different messages never give the same codeword input.
C30_MessageEncodingLossless ==
    (Applied("compute_message_hash") /\ calc.in.message[1] # calc.in.message[2]) =>
        /\ calc.out.fe[1] # calc.out.fe[2]
        /\ calc.out.input[1] # calc.out.input[2]

\* Lanes 0..4 represent the first 16 bytes
FirstHalfLossless ==
    (Applied("compute_message_hash")
       /\ FirstHalf(calc.in.message[1]) # FirstHalf(calc.in.message[2])) =>
        SubSeq(calc.out.fe[1], 1, half) # SubSeq(calc.out.fe[2], 1, half)

\* Lanes 5..8 represent the last 16 bytes when their value is below p^4
SecondHalfLosslessBelowFourLanes ==
    (Applied("compute_message_hash")
       /\ SecondHalf(calc.in.message[1]) # SecondHalf(calc.in.message[2])
       /\ \A j \in 1..2 : WordLess(Reverse(SecondHalf(calc.in.message[j])), FourLanes)) =>
        SubSeq(calc.out.fe[1], half + 1, MSG_LEN_FE)
            # SubSeq(calc.out.fe[2], half + 1, MSG_LEN_FE)

\* Last 16 bytes of value 0 and of value p^4: two messages, one element array,
\* one compression input, one message hash
C30_Collision ==
    /\ Applied("compute_message_hash")
    /\ calc.in.message[1] = Zeros(DIGEST_LEN)
    /\ calc.in.message[2] = Zeros(16) \o HalfOf(FourLanes)
    /\ calc.in.message[1] # calc.in.message[2]
    /\ Len(calc.out.fe[1]) = MSG_LEN_FE
    /\ calc.out.fe[1] = calc.out.fe[2]
    /\ calc.out.input[1] = calc.out.input[2]
    /\ calc.out.hash[1] = calc.out.hash[2]

====
